---- MODULE Spec2Model ----
(***************************************************************************)
(* A model of the portkey federation gateway.                              *)
(*                                                                         *)
(*   Spec      the gateway facade and the in-memory schema registry:       *)
(*             concurrent process_request / register_service calls, the    *)
(*             registry lock, the services lock and the composed cache.    *)
(*   SpecPlan  SimpleQueryPlanner::plan_query on bounded documents.        *)
(*   SpecExec  HttpQueryExecutor::execute_plan on bounded plans and        *)
(*             upstream answers.                                           *)
(*   SpecRequest  one FederationGateway::process_request from its call to  *)
(*             its return: get_schema, plan_query, execute_plan.           *)
(*   SpecLocks the calls of Spec with every acquisition of the cache lock  *)
(*             as a step of its own, under fairness of the tasks' steps.   *)
(*                                                                         *)
(* Each specification moves its own variables and leaves the others at     *)
(* their initial values.                                                   *)
(***************************************************************************)
EXTENDS Naturals, Integers, Sequences, FiniteSets, TLC

VARIABLES
    \* ---- registry and facade (Spec) ----
    services,          \* InMemorySchemaRegistry.services: name -> ServiceConfig
    federated_schema,  \* InMemorySchemaRegistry.federated_schema: Option<FederatedSchema>
    regReaders,        \* tasks holding FederationGateway.schema_registry for reading
    regWriter,         \* task holding FederationGateway.schema_registry for writing, or NoTask
    iteration_order,   \* the order in which InMemorySchemaRegistry.services is iterated
    growth_left,       \* entries the table of `services` takes before it has to grow
    svcReaders,        \* tasks holding the services lock for reading
    svcWriter,         \* task holding the services lock for writing, or NoTask
    pc,                \* each task's position
    arg,               \* each task's ServiceConfig argument (register_service)
    built,             \* each task's locally composed schema (get_schema, line 134)
    result,            \* each task's last get_schema result
    calls,             \* number of calls started so far
    lastReturned,      \* history: name -> config of the last register_service that returned
    prevReturned,      \* history: name -> config that the last returned registration replaced
    seenAtStart,       \* history: lastReturned as it stood when the task's get_schema started
    cacheAtStart,      \* history: the cache cell as it stood when the task's get_schema started
    idem,              \* history: the last snapshot returned and what was registered since
    \* ---- planner (SpecPlan) ----
    planQuery,         \* plan_query's `query`, as the document parse_query yields
    planSchema,        \* plan_query's `schema`
    planVariables,     \* plan_query's `variables`
    planResult,        \* None, or Some(the Result plan_query returned)
    \* ---- executor (SpecExec) ----
    execPlan,          \* execute_plan's `plan`
    execSchema,        \* execute_plan's `schema`
    auth_headers,      \* GraphQLRequest.auth_headers of the request being processed
    upstream,          \* environment: service -> how its server answers a request
    execPc,            \* "ready" | "running" | "done"
    futures,           \* the futures pushed by the loop over plan.service_queries, in order
    sent,              \* service -> the request its future has dispatched
    outcome,           \* service -> the Result its future completed with
    execResult,        \* None, or Some(the Result execute_plan returned)
    prevResult,        \* history: the Result the previous run on the same inputs returned
    runs,              \* number of runs of execute_plan started on these inputs
    \* ---- one process_request from its call to its return (SpecRequest) ----
    reqPc,             \* "none" | "get_schema" | "plan_query" | "execute_plan" | "returned"
    reqSchema,         \* None, or Some(the Result get_schema returned to process_request)
    reqResult,         \* None, or Some(the Result process_request returned)
    \* ---- the cache lock, InMemorySchemaRegistry.federated_schema (SpecLocks) ----
    cacheReaders,      \* tasks holding the cache lock for reading
    cacheWriter        \* task holding the cache lock for writing, or NoTask

regVars == <<services, iteration_order, growth_left, federated_schema, regReaders, regWriter,
             svcReaders, svcWriter, pc, arg, built, result, calls, lastReturned, prevReturned,
             seenAtStart, cacheAtStart, idem>>

planVars == <<planQuery, planSchema, planVariables, planResult>>

execVars == <<execPlan, execSchema, auth_headers, upstream, execPc, futures, sent, outcome,
              execResult, prevResult, runs>>

reqVars == <<reqPc, reqSchema, reqResult>>

lockVars == <<cacheReaders, cacheWriter>>

vars == <<regVars, planVars, execVars, reqVars, lockVars>>

----------------------------------------------------------------------------
(* Bounds *)

NumTasks == 2
MaxCalls == 4
MaxTopLevel == 2      \* top-level selections of an operation
MaxRuns == 2          \* runs of execute_plan on the same inputs
MaxMeanwhile == 1     \* register_service calls that complete while a request is in flight
MaxLockCalls == 3     \* calls started while the three locks are watched

Tasks == 1..NumTasks
NoTask == 0

----------------------------------------------------------------------------
(* Values *)

None == [some |-> FALSE]
Some(v) == [some |-> TRUE, value |-> v]

NoCfg == [name |-> "", url |-> "", schema |-> "none"]

\* Range of a sequence
Range(s) == {s[i] : i \in DOMAIN s}

\* All orderings of a finite set, as sequences without repetition
Orderings(S) == {s \in [1..Cardinality(S) -> S] : Range(s) = S}

(***************************************************************************)
(* Schema texts.  graphql_parser::parse_schema is a library; a schema text *)
(* is modelled by what parsing it yields: an error, or the list of its     *)
(* type definitions (kind, name, and for an object type its fields with    *)
(* their argument names).                                                  *)
(***************************************************************************)
ObjectType(n, fs) == [kind |-> "Object", name |-> n, fields |-> fs]
OtherType(k, n) == [kind |-> k, name |-> n, fields |-> <<>>]
FieldDef(n, as) == [name |-> n, arguments |-> as]

ParseOk(defs) == [ok |-> TRUE, definitions |-> defs]
ParseErr == [ok |-> FALSE, definitions |-> <<>>]

SchemaNames == {"usersV1", "usersV2", "products", "catalog", "reviews", "broken"}

\* parse_schema::<String>(&service_config.schema)
parse_schema(text) ==
    CASE text = "usersV1" ->
            ParseOk(<< ObjectType("Query", << FieldDef("users", <<>>),
                                              FieldDef("user", <<"id">>) >>),
                       ObjectType("User", << FieldDef("id", <<>>) >>) >>)
      [] text = "usersV2" ->
            ParseOk(<< ObjectType("Query", << FieldDef("user", <<"id">>),
                                              FieldDef("me", <<>>),
                                              FieldDef("products", <<>>) >>),
                       OtherType("Enum", "Role") >>)
      [] text = "products" ->
            ParseOk(<< ObjectType("Query", << FieldDef("products", <<>>),
                                              FieldDef("product", <<"id">>) >>),
                       OtherType("Scalar", "Money") >>)
      [] text = "catalog" ->
            ParseOk(<< ObjectType("Query", << FieldDef("products", <<>>),
                                              FieldDef("products", <<>>) >>),
                       OtherType("Interface", "Node"),
                       ObjectType("Mutation", << FieldDef("createUser", <<"input">>) >>) >>)
      [] text = "reviews" ->
            ParseOk(<< ObjectType("Query", << FieldDef("reviews", <<>>) >>),
                       ObjectType("Review", << FieldDef("id", <<>>) >>) >>)
      [] OTHER -> ParseErr

ServiceNames == {"users", "products"}

ServiceConfig(n, u, s) == [name |-> n, url |-> u, schema |-> s]

\* The ServiceConfig values a caller may register
Configs ==
    { ServiceConfig("users", "http://u", "usersV1"),
      ServiceConfig("users", "http://u", "usersV2"),
      ServiceConfig("users", "http://u2", "usersV1"),
      ServiceConfig("products", "http://p", "products"),
      ServiceConfig("products", "http://p", "catalog"),
      ServiceConfig("products", "http://p", "broken"),
      ServiceConfig("users", "http://u", "broken") }

----------------------------------------------------------------------------
(* InMemorySchemaRegistry::build_federated_schema *)

\* type_to_service_map.entry(key).or_insert_with(Vec::new).push(service_name)
PushOwner(m, key, service_name) ==
    [(m @@ (key :> <<>>)) EXCEPT ![key] = Append(@, service_name)]

RECURSIVE PushAll(_, _, _)
PushAll(m, keys, service_name) ==
    IF keys = <<>> THEN m
    ELSE PushAll(PushOwner(m, Head(keys), service_name), Tail(keys), service_name)

RECURSIVE Concat(_)
Concat(ss) == IF ss = <<>> THEN <<>> ELSE Head(ss) \o Concat(Tail(ss))

\* format!("{}.{}", type_name, field.name) and, per argument,
\* format!("{}.{}.{}", type_name, field.name, arg.name)
FieldKeys(type_name, field) ==
    << type_name \o "." \o field.name >>
    \o [i \in 1..Len(field.arguments) |->
            type_name \o "." \o field.name \o "." \o field.arguments[i]]

\* The keys one type definition emits, in the order the loop pushes them
TypeDefKeys(typedef) ==
    IF typedef.kind = "Object"
    THEN << typedef.name >>
         \o Concat([i \in 1..Len(typedef.fields) |-> FieldKeys(typedef.name, typedef.fields[i])])
    ELSE << typedef.name >>

DocumentKeys(doc) ==
    Concat([i \in 1..Len(doc.definitions) |-> TypeDefKeys(doc.definitions[i])])

\* The set of keys a schema text emits (empty when it does not parse)
SchemaKeySet(text) == Range(DocumentKeys(parse_schema(text)))

\* (mutation) the snapshot is returned without the service map
BuildOkWithoutServices(svcs, m) ==
    [ok |-> TRUE, schema |-> [services |-> <<>>, type_to_service_map |-> m], service |-> ""]

BuildOk(svcs, m) ==
    [ok |-> TRUE, schema |-> [services |-> svcs, type_to_service_map |-> m], service |-> ""]
BuildErr(service_name) ==
    [ok |-> FALSE, schema |-> [services |-> <<>>, type_to_service_map |-> <<>>],
     service |-> service_name]

\* (mutation) a service whose schema does not parse is left out of the index
RECURSIVE BuildFromSkipInvalid(_, _, _, _)
BuildFromSkipInvalid(svcs, order, i, m) ==
    IF i > Len(order) THEN BuildOk(svcs, m)
    ELSE LET service_name == order[i]
             doc == parse_schema(svcs[service_name].schema)
         IN  IF ~doc.ok THEN BuildFromSkipInvalid(svcs, order, i + 1, m)
             ELSE BuildFromSkipInvalid(svcs, order, i + 1,
                                       PushAll(m, DocumentKeys(doc), service_name))

\* The loop of build_federated_schema over `services`, visited in `order`
\* (the HashMap's iteration order), from position i with the index m so far.
RECURSIVE BuildFrom(_, _, _, _)
BuildFrom(svcs, order, i, m) ==
    IF i > Len(order) THEN BuildOk(svcs, m)
    ELSE LET service_name == order[i]
             doc == parse_schema(svcs[service_name].schema)
         IN  IF ~doc.ok THEN BuildErr(service_name)
             ELSE BuildFrom(svcs, order, i + 1, PushAll(m, DocumentKeys(doc), service_name))

build_federated_schema(svcs, order) == BuildFrom(svcs, order, 1, <<>>)

----------------------------------------------------------------------------
(* InMemorySchemaRegistry::register_service, the two assignments *)

\* (mutation) entry(name).or_insert(service): an existing registration is kept
InsertIfAbsent(svcs, service) == svcs @@ (service.name :> service)

\* (mutation) a registration of a known name replaces the url and keeps the schema
InsertServiceUrlOnly(svcs, service) ==
    IF service.name \in DOMAIN svcs
    THEN [svcs EXCEPT ![service.name].url = service.url]
    ELSE (service.name :> service) @@ svcs

\* services.insert(service.name.clone(), service)
InsertService(svcs, service) == (service.name :> service) @@ svcs

\* (mutation) the cache cell is left as it is
KeepCache(cache) == cache

\* *federated_schema = None
InvalidatedCache(cache) == None

\* The table of the HashMap `services`.  What the program observes of it is
\* the order in which `for (service_name, config) in services` visits the
\* entries.  HashMap::insert reserves room for one more entry before it
\* looks the key up, so an insert into a table that is full moves every
\* entry to a larger table, also when the key is already there; otherwise
\* the entries stay where they are and a new key takes a free place.

\* entries a table made for n entries takes (4 buckets hold 3, 8 hold 7, 16 hold 14)
CapacityFor(n) == IF n < 4 THEN 3 ELSE IF n < 8 THEN 7 ELSE 14

\* insert finds no room left and moves the entries to a larger table
Grows(left) == left = 0

\* growth_left after services.insert(name, ..)
GrowthLeftAfterInsert(svcs, left, name) ==
    LET items == Cardinality(DOMAIN svcs)
        room == IF Grows(left) THEN CapacityFor(items + 1) - items ELSE left
    IN  IF name \in DOMAIN svcs THEN room ELSE room - 1

\* the iteration orders the map can have after services.insert(name, ..)
OrdersAfterInsert(svcs, order, left, name) ==
    IF Grows(left) THEN Orderings(DOMAIN svcs \cup {name})
    ELSE IF name \in DOMAIN svcs THEN {order}
    ELSE {o \in Orderings(DOMAIN svcs \cup {name}) :
              SelectSeq(o, LAMBDA n : n # name) = order}

\* history kept for the comparison of snapshots around a repeated registration
NoChange == "none"
RepeatsOnly == "only"
OtherChange == "other"

IdemInit == [base |-> None, repeat |-> NoChange, pair |-> None]

\* services.insert(service.name, service) seen from the last returned snapshot
IdemAfterInsert(h, svcs, service) ==
    [h EXCEPT !.repeat =
        IF service.name \in DOMAIN svcs /\ svcs[service.name] = service
        THEN (IF h.repeat = OtherChange THEN OtherChange ELSE RepeatsOnly)
        ELSE OtherChange]

\* get_schema returns Ok(snapshot)
IdemAfterSnapshot(h, snapshot) ==
    [base |-> Some(snapshot.type_to_service_map),
     repeat |-> NoChange,
     pair |-> IF h.base.some /\ h.repeat = RepeatsOnly
              THEN Some([first |-> h.base.value, second |-> snapshot.type_to_service_map])
              ELSE None]

----------------------------------------------------------------------------
(* Spec: the facade and the registry *)

\* the registry's actions leave the planner's and the executor's variables alone
RegFrame == UNCHANGED <<planVars, execVars, reqVars, lockVars>>

RegInit ==
    /\ services = <<>>
    /\ iteration_order = <<>>
    /\ growth_left = 0
    /\ idem = IdemInit
    /\ federated_schema = None
    /\ regReaders = {}
    /\ regWriter = NoTask
    /\ svcReaders = {}
    /\ svcWriter = NoTask
    /\ pc = [t \in Tasks |-> "idle"]
    /\ arg = [t \in Tasks |-> NoCfg]
    /\ built = [t \in Tasks |-> None]
    /\ result = [t \in Tasks |-> None]
    /\ calls = 0
    /\ lastReturned = [n \in ServiceNames |-> NoCfg]
    /\ prevReturned = [n \in ServiceNames |-> NoCfg]
    /\ seenAtStart = [t \in Tasks |-> [n \in ServiceNames |-> NoCfg]]
    /\ cacheAtStart = [t \in Tasks |-> None]

\* A client calls FederationGateway::process_request
CallProcessRequest(t) ==
    /\ RegFrame
    /\ pc[t] = "idle"
    /\ calls < MaxCalls
    /\ calls' = calls + 1
    /\ pc' = [pc EXCEPT ![t] = "pr_registry"]
    /\ result' = [result EXCEPT ![t] = None]
    /\ UNCHANGED <<iteration_order, growth_left, idem, cacheAtStart,
                   services, federated_schema, regReaders, regWriter, svcReaders,
                   svcWriter, arg, built, lastReturned, prevReturned, seenAtStart>>

\* A client calls FederationGateway::register_service(service)
CallRegisterService(t, service) ==
    /\ RegFrame
    /\ pc[t] = "idle"
    /\ calls < MaxCalls
    /\ calls' = calls + 1
    /\ pc' = [pc EXCEPT ![t] = "rs_registry"]
    /\ arg' = [arg EXCEPT ![t] = service]
    /\ result' = [result EXCEPT ![t] = None]
    /\ UNCHANGED <<iteration_order, growth_left, idem, cacheAtStart,
                   services, federated_schema, regReaders, regWriter, svcReaders,
                   svcWriter, built, lastReturned, prevReturned, seenAtStart>>

\* (mutation) the registry is read without waiting for the writer to finish
PR_ReadRegistryUnlocked(t) ==
    /\ RegFrame
    /\ pc[t] = "pr_registry"
    /\ regReaders' = regReaders \cup {t}
    /\ seenAtStart' = [seenAtStart EXCEPT ![t] = lastReturned]
    /\ cacheAtStart' = [cacheAtStart EXCEPT ![t] = federated_schema]
    /\ pc' = [pc EXCEPT ![t] = "gs_cache"]
    /\ UNCHANGED <<iteration_order, growth_left, idem,
                   services, federated_schema, regWriter, svcReaders, svcWriter,
                   arg, built, result, calls, lastReturned, prevReturned>>

\* process_request: self.schema_registry.read().await, then get_schema starts
PR_ReadRegistry(t) ==
    /\ RegFrame
    /\ pc[t] = "pr_registry"
    /\ regWriter = NoTask
    /\ regReaders' = regReaders \cup {t}
    /\ seenAtStart' = [seenAtStart EXCEPT ![t] = lastReturned]
    /\ cacheAtStart' = [cacheAtStart EXCEPT ![t] = federated_schema]
    /\ pc' = [pc EXCEPT ![t] = "gs_cache"]
    /\ UNCHANGED <<iteration_order, growth_left, idem,
                   services, federated_schema, regWriter, svcReaders, svcWriter,
                   arg, built, result, calls, lastReturned, prevReturned>>

\* get_schema: self.federated_schema.read().await; a cached snapshot is returned,
\* otherwise the guard is dropped
GS_ReadCache(t) ==
    /\ RegFrame
    /\ pc[t] = "gs_cache"
    /\ IF federated_schema.some
       THEN /\ result' = [result EXCEPT ![t] = Some(BuildOk(federated_schema.value.services,
                                                  federated_schema.value.type_to_service_map))]
            /\ idem' = IdemAfterSnapshot(idem, federated_schema.value)
            /\ pc' = [pc EXCEPT ![t] = "pr_drop"]
       ELSE /\ pc' = [pc EXCEPT ![t] = "gs_services"]
            /\ UNCHANGED <<result, idem>>
    /\ UNCHANGED <<iteration_order, growth_left, cacheAtStart,
                   services, federated_schema, regReaders, regWriter, svcReaders,
                   svcWriter, arg, built, calls, lastReturned, prevReturned, seenAtStart>>

\* get_schema: self.services.read().await
GS_ReadServices(t) ==
    /\ RegFrame
    /\ pc[t] = "gs_services"
    /\ svcWriter = NoTask
    /\ svcReaders' = svcReaders \cup {t}
    /\ pc' = [pc EXCEPT ![t] = "gs_build"]
    /\ UNCHANGED <<iteration_order, growth_left, idem, cacheAtStart,
                   services, federated_schema, regReaders, regWriter, svcWriter,
                   arg, built, result, calls, lastReturned, prevReturned, seenAtStart>>

\* (mutation) the cache cell is written before the result of the composition is looked at
GS_BuildThenStore(t) ==
    /\ RegFrame
    /\ pc[t] = "gs_build"
    /\ LET r == build_federated_schema(services, iteration_order)
         IN  IF r.ok
             THEN /\ built' = [built EXCEPT ![t] = Some(r.schema)]
                  /\ pc' = [pc EXCEPT ![t] = "gs_install"]
                  /\ UNCHANGED <<result, svcReaders, federated_schema>>
             ELSE /\ result' = [result EXCEPT ![t] = Some(r)]
                  /\ svcReaders' = svcReaders \ {t}
                  /\ pc' = [pc EXCEPT ![t] = "pr_drop"]
                  /\ federated_schema' = Some(r.schema)
                  /\ UNCHANGED built
    /\ UNCHANGED <<iteration_order, growth_left, idem, cacheAtStart,
                   services, regReaders, regWriter, svcWriter,
                   arg, calls, lastReturned, prevReturned, seenAtStart>>

\* get_schema: self.build_federated_schema(&services).await, with the services
\* guard held; a parse error returns through `?`, dropping the guard
GS_Build(t) ==
    /\ RegFrame
    /\ pc[t] = "gs_build"
    /\ \E r \in {build_federated_schema(services, iteration_order)} :
             IF r.ok
             THEN /\ built' = [built EXCEPT ![t] = Some(r.schema)]
                  /\ pc' = [pc EXCEPT ![t] = "gs_install"]
                  /\ UNCHANGED <<result, svcReaders>>
             ELSE /\ result' = [result EXCEPT ![t] = Some(r)]
                  /\ svcReaders' = svcReaders \ {t}
                  /\ pc' = [pc EXCEPT ![t] = "pr_drop"]
                  /\ UNCHANGED built
    /\ UNCHANGED <<iteration_order, growth_left, idem, cacheAtStart,
                   services, federated_schema, regReaders, regWriter, svcWriter,
                   arg, calls, lastReturned, prevReturned, seenAtStart>>

\* get_schema: self.federated_schema.write().await; install and return the snapshot
\* (the services read guard and the cache write guard are dropped on return)
GS_InstallCache(t) ==
    /\ RegFrame
    /\ pc[t] = "gs_install"
    /\ federated_schema' = Some(built[t].value)
    /\ idem' = IdemAfterSnapshot(idem, built[t].value)
    /\ result' = [result EXCEPT ![t] = Some(BuildOk(built[t].value.services,
                                                  built[t].value.type_to_service_map))]
    /\ built' = [built EXCEPT ![t] = None]
    /\ svcReaders' = svcReaders \ {t}
    /\ pc' = [pc EXCEPT ![t] = "pr_drop"]
    /\ UNCHANGED <<iteration_order, growth_left, cacheAtStart,
                   services, regReaders, regWriter, svcWriter, arg, calls,
                   lastReturned, prevReturned, seenAtStart>>

\* process_request: get_schema has returned; the registry guard is dropped
\* (drop(schema_registry), or the early return of `?`)
PR_DropRegistry(t) ==
    /\ RegFrame
    /\ pc[t] = "pr_drop"
    /\ regReaders' = regReaders \ {t}
    /\ result' = [result EXCEPT ![t] = None]
    /\ cacheAtStart' = [cacheAtStart EXCEPT ![t] = None]
    /\ pc' = [pc EXCEPT ![t] = "idle"]
    /\ UNCHANGED <<iteration_order, growth_left, idem,
                   services, federated_schema, regWriter, svcReaders, svcWriter,
                   arg, built, calls, lastReturned, prevReturned, seenAtStart>>

\* register_service (facade): self.schema_registry.write().await
RS_WriteRegistry(t) ==
    /\ RegFrame
    /\ pc[t] = "rs_registry"
    /\ regWriter = NoTask
    /\ regReaders = {}
    /\ regWriter' = t
    /\ pc' = [pc EXCEPT ![t] = "rs_services"]
    /\ UNCHANGED <<iteration_order, growth_left, idem, cacheAtStart,
                   services, federated_schema, regReaders, svcReaders, svcWriter,
                   arg, built, result, calls, lastReturned, prevReturned, seenAtStart>>

\* register_service (registry): self.services.write().await; services.insert(..)
RS_InsertService(t) ==
    /\ RegFrame
    /\ pc[t] = "rs_services"
    /\ svcWriter = NoTask
    /\ svcReaders = {}
    /\ svcWriter' = t
    /\ services' = InsertService(services, arg[t])
    /\ iteration_order' \in OrdersAfterInsert(services, iteration_order, growth_left, arg[t].name)
    /\ growth_left' = GrowthLeftAfterInsert(services, growth_left, arg[t].name)
    /\ idem' = IdemAfterInsert(idem, services, arg[t])
    /\ pc' = [pc EXCEPT ![t] = "rs_cache"]
    /\ UNCHANGED <<federated_schema, regReaders, regWriter, svcReaders, cacheAtStart,
                   arg, built, result, calls, lastReturned, prevReturned, seenAtStart>>

\* register_service (registry): self.federated_schema.write().await;
\* *federated_schema = None; Ok(()) -- every guard is dropped on return
RS_InvalidateAndReturn(t) ==
    /\ RegFrame
    /\ pc[t] = "rs_cache"
    /\ federated_schema' = InvalidatedCache(federated_schema)
    /\ svcWriter' = NoTask
    /\ regWriter' = NoTask
    /\ lastReturned' = [lastReturned EXCEPT ![arg[t].name] = arg[t]]
    /\ prevReturned' = [prevReturned EXCEPT ![arg[t].name] = lastReturned[arg[t].name]]
    /\ arg' = [arg EXCEPT ![t] = NoCfg]
    /\ pc' = [pc EXCEPT ![t] = "idle"]
    /\ UNCHANGED <<iteration_order, growth_left, idem, cacheAtStart,
                   services, regReaders, svcReaders, built, result, calls, seenAtStart>>

Next ==
    \E t \in Tasks :
        \/ CallProcessRequest(t)
        \/ \E service \in Configs : CallRegisterService(t, service)
        \/ PR_ReadRegistry(t)
        \/ GS_ReadCache(t)
        \/ GS_ReadServices(t)
        \/ GS_Build(t)
        \/ GS_InstallCache(t)
        \/ PR_DropRegistry(t)
        \/ RS_WriteRegistry(t)
        \/ RS_InsertService(t)
        \/ RS_InvalidateAndReturn(t)

----------------------------------------------------------------------------
(* Query documents, as graphql_parser::query::parse_query yields them *)

Field(n, args, sels) ==
    [kind |-> "Field", alias |-> "", name |-> n, arguments |-> args,
     directives |-> <<>>, selection_set |-> sels]
FragmentSpread(n) == [kind |-> "FragmentSpread", fragment_name |-> n]
InlineFragment(tc, sels) ==
    [kind |-> "InlineFragment", type_condition |-> tc, selection_set |-> sels]

Variable(n) == [kind |-> "Variable", v |-> n]
IntValue(i) == [kind |-> "Int", v |-> i]
StringValue(chars) == [kind |-> "String", v |-> chars]
EnumValue(e) == [kind |-> "Enum", v |-> e]
ListValue(items) == [kind |-> "List", v |-> items]
\* an input object: its (key, value) pairs in key order (a BTreeMap)
ObjectValue(pairs) == [kind |-> "Object", v |-> pairs]

VariableDefinition(n, ty, dflt) == [name |-> n, var_type |-> ty, default_value |-> dflt]

\* OperationDefinition::SelectionSet
SelectionSetOp(sels) ==
    [kind |-> "SelectionSet", variable_definitions |-> <<>>, selection_set |-> sels]
\* OperationDefinition::Query / Mutation / Subscription
Operation(k, defs, sels) ==
    [kind |-> k, variable_definitions |-> defs, selection_set |-> sels]
\* Definition::Fragment
FragmentDefinition(n, tc, sels) ==
    [kind |-> "Fragment", name |-> n, type_condition |-> tc,
     variable_definitions |-> <<>>, selection_set |-> sels]

----------------------------------------------------------------------------
(* SimpleQueryPlanner: variable collection *)

RECURSIVE extract_variables_from_value(_)
RECURSIVE ExtractFromValues(_)
\* extract_variables_from_value, as the set it adds to `variables`
extract_variables_from_value(value) ==
    CASE value.kind = "Variable" -> {value.v}
      [] value.kind = "List" -> ExtractFromValues(value.v)
      [] value.kind = "Object" ->
            ExtractFromValues([i \in 1..Len(value.v) |-> value.v[i][2]])
      [] OTHER -> {}
ExtractFromValues(values) ==
    IF values = <<>> THEN {}
    ELSE extract_variables_from_value(Head(values)) \cup ExtractFromValues(Tail(values))

RECURSIVE collect_variables_from_field(_)
RECURSIVE CollectFromSelections(_)
\* collect_variables_from_field: the arguments of the field, then the nested
\* selections that are plain fields
collect_variables_from_field(field) ==
    ExtractFromValues([i \in 1..Len(field.arguments) |-> field.arguments[i][2]])
    \cup CollectFromSelections(field.selection_set)
CollectFromSelections(items) ==
    IF items = <<>> THEN {}
    ELSE (IF Head(items).kind = "Field"
          THEN collect_variables_from_field(Head(items))
          ELSE {})
         \cup CollectFromSelections(Tail(items))

find_variables_in_field(field) == collect_variables_from_field(field)

\* extract_fields: the selections that are plain fields, in order
extract_fields(selection_set) == SelectSeq(selection_set, LAMBDA sel : sel.kind = "Field")

----------------------------------------------------------------------------
(* SimpleQueryPlanner: routing *)

RouteOk(service_name) == [ok |-> TRUE, service |-> service_name]
RouteErr(field_name, operation_type) ==
    [ok |-> FALSE, field |-> field_name, operation |-> operation_type]

find_service_for_field(field_name, operation_type, schema) ==
    LET type_key == operation_type \o "." \o field_name IN
    IF /\ type_key \in DOMAIN schema.type_to_service_map
       /\ schema.type_to_service_map[type_key] # <<>>
    THEN RouteOk(schema.type_to_service_map[type_key][1])
    ELSE RouteErr(field_name, operation_type)

----------------------------------------------------------------------------------------------------------------------------------------
(* SimpleQueryPlanner: printing.  A text is the sequence of its lexemes.  A  *)
(* lexeme is the sequence of its pieces: one piece for a name, a number or   *)
(* a punctuator, and for a string literal the opening quote, the characters  *)
(* pushed between the quotes one by one, and the closing quote.  White       *)
(* space, which only separates lexemes, is left out.                         *)

\* the text made of the given one-piece lexemes
Lexemes(pieces) == [i \in DOMAIN pieces |-> << pieces[i] >>]

\* for c in s.chars(): a backslash is pushed before a double quote only
RECURSIVE EscapeChars(_)
EscapeChars(chars) ==
    IF chars = <<>> THEN <<>>
    ELSE (IF Head(chars) = "\"" THEN << "\\", Head(chars) >> ELSE << Head(chars) >>)
         \o EscapeChars(Tail(chars))

RECURSIVE append_value(_)
RECURSIVE AppendValues(_, _)
RECURSIVE AppendPairs(_, _)
append_value(value) ==
    CASE value.kind = "Variable" -> Lexemes(<< "$", value.v >>)
      [] value.kind = "String" -> << << "\"" >> \o EscapeChars(value.v) \o << "\"" >> >>
      \* write!(out, "{:?}", i): the Debug form of query::Number
      [] value.kind = "Int" -> Lexemes(<< "Number", "(", ToString(value.v), ")" >>)
      [] value.kind = "Boolean" -> Lexemes(<< IF value.v THEN "true" ELSE "false" >>)
      [] value.kind = "Null" -> Lexemes(<< "null" >>)
      [] value.kind = "Enum" -> Lexemes(<< value.v >>)
      [] value.kind = "List" ->
            Lexemes(<< "[" >>) \o AppendValues(value.v, TRUE) \o Lexemes(<< "]" >>)
      [] value.kind = "Object" ->
            Lexemes(<< "{" >>) \o AppendPairs(value.v, TRUE) \o Lexemes(<< "}" >>)
AppendValues(items, first) ==
    IF items = <<>> THEN <<>>
    ELSE (IF first THEN <<>> ELSE Lexemes(<< "," >>))
         \o append_value(Head(items)) \o AppendValues(Tail(items), FALSE)
\* (name, value) pairs printed as `name: value`, separated by ", "
AppendPairs(pairs, first) ==
    IF pairs = <<>> THEN <<>>
    ELSE (IF first THEN <<>> ELSE Lexemes(<< "," >>))
         \o Lexemes(<< Head(pairs)[1], ":" >>) \o append_value(Head(pairs)[2])
         \o AppendPairs(Tail(pairs), FALSE)

\* `(name: value, ...)` when the field has arguments
AppendArguments(arguments) ==
    IF arguments = <<>> THEN <<>>
    ELSE Lexemes(<< "(" >>) \o AppendPairs(arguments, TRUE) \o Lexemes(<< ")" >>)

RECURSIVE append_selection_set(_)
RECURSIVE AppendSelection(_)
append_selection_set(items) ==
    IF items = <<>> THEN <<>>
    ELSE AppendSelection(Head(items)) \o append_selection_set(Tail(items))
AppendSelection(selection) ==
    CASE selection.kind = "Field" ->
            Lexemes(<< selection.name >>)
            \o AppendArguments(selection.arguments)
            \o (IF selection.selection_set # <<>>
                THEN Lexemes(<< "{" >>) \o append_selection_set(selection.selection_set)
                     \o Lexemes(<< "}" >>)
                ELSE <<>>)
      [] selection.kind = "FragmentSpread" -> Lexemes(<< "...", selection.fragment_name >>)
      [] selection.kind = "InlineFragment" ->
            Lexemes(<< "..." >>)
            \o (IF selection.type_condition # ""
                THEN Lexemes(<< "on", selection.type_condition >>)
                ELSE <<>>)
            \o Lexemes(<< "{" >>) \o append_selection_set(selection.selection_set)
            \o Lexemes(<< "}" >>)

\* the projected declarations: the definitions whose name is used, in order
RECURSIVE AppendDeclarations(_, _, _)
AppendDeclarations(variable_defs, used_variables, first) ==
    IF variable_defs = <<>> THEN <<>>
    ELSE LET def == Head(variable_defs) IN
         IF def.name \in used_variables
         THEN (IF first THEN <<>> ELSE Lexemes(<< "," >>))
              \o Lexemes(<< "$", def.name, ":", def.var_type >>)
              \o (IF def.default_value.some
                  THEN Lexemes(<< "=" >>) \o append_value(def.default_value.value)
                  ELSE <<>>)
              \o AppendDeclarations(Tail(variable_defs), used_variables, FALSE)
         ELSE AppendDeclarations(Tail(variable_defs), used_variables, first)

OperationKeyword(operation_type) ==
    CASE operation_type = "Query" -> "query"
      [] operation_type = "Mutation" -> "mutation"
      [] operation_type = "Subscription" -> "subscription"
      [] OTHER -> "query"

create_field_query(field, operation_type, variable_defs, used_variables) ==
    Lexemes(<< OperationKeyword(operation_type) >>)
    \o (IF used_variables # {}
        THEN Lexemes(<< "(" >>) \o AppendDeclarations(variable_defs, used_variables, TRUE)
             \o Lexemes(<< ")" >>)
        ELSE <<>>)
    \o Lexemes(<< "{", field.name >>)
    \o AppendArguments(field.arguments)
    \o (IF field.selection_set # <<>>
        THEN Lexemes(<< "{" >>) \o append_selection_set(field.selection_set)
             \o Lexemes(<< "}" >>)
        ELSE <<>>)
    \o Lexemes(<< "}" >>)

----------------
(* SimpleQueryPlanner::plan_query *)

\* the client's `variables`: Option<serde_json::Value>
NoVariables == [kind |-> "none", fields |-> <<>>]
ObjectVariables(f) == [kind |-> "object", fields |-> f]
NonObjectVariables == [kind |-> "other", fields |-> <<>>]

\* the JSON object stored in service_variables for one field
ProjectVariables(variables, field_variables) ==
    IF variables.kind = "none" THEN <<>>
    ELSE IF field_variables = {} THEN <<>>
    ELSE IF variables.kind = "object"
    THEN [n \in field_variables \cap DOMAIN variables.fields |-> variables.fields[n]]
    ELSE <<>>

\* HashMap::insert: the value under an existing key is replaced
MapInsert(m, k, v) == (k :> v) @@ m

PlanOk(sq, sv) ==
    [ok |-> TRUE, service_queries |-> sq, service_variables |-> sv, error |-> "", at |-> <<>>]
PlanErr(e, where) ==
    [ok |-> FALSE, service_queries |-> <<>>, service_variables |-> <<>>, error |-> e, at |-> where]

\* (mutation) a field that no service owns is skipped
PlanFieldSkipUnroutable(acc, field, operation_type, variable_defs, schema, variables) ==
    LET route == find_service_for_field(field.name, operation_type, schema) IN
    IF ~route.ok THEN acc
    ELSE LET field_variables == find_variables_in_field(field)
             field_query == create_field_query(field, operation_type, variable_defs,
                                               field_variables)
         IN  PlanOk(MapInsert(acc.service_queries, route.service, field_query),
                    MapInsert(acc.service_variables, route.service,
                              ProjectVariables(variables, field_variables)))

\* (mutation) a field that references no variable gets no entry in service_variables
PlanFieldNoEmptyVariables(acc, field, operation_type, variable_defs, schema, variables) ==
    LET route == find_service_for_field(field.name, operation_type, schema) IN
    IF ~route.ok THEN PlanErr("No service found for field", << operation_type, field.name >>)
    ELSE LET field_variables == find_variables_in_field(field)
             field_query == create_field_query(field, operation_type, variable_defs,
                                               field_variables)
         IN  PlanOk(MapInsert(acc.service_queries, route.service, field_query),
                    IF field_variables = {} THEN acc.service_variables
                    ELSE MapInsert(acc.service_variables, route.service,
                                   ProjectVariables(variables, field_variables)))

\* one iteration of `for field in Self::extract_fields(selection_set)`
PlanField(acc, field, operation_type, variable_defs, schema, variables) ==
    LET route == find_service_for_field(field.name, operation_type, schema) IN
    IF ~route.ok THEN PlanErr("No service found for field", << operation_type, field.name >>)
    ELSE LET field_variables == find_variables_in_field(field)
             field_query == create_field_query(field, operation_type, variable_defs,
                                               field_variables)
         IN  PlanOk(MapInsert(acc.service_queries, route.service, field_query),
                    MapInsert(acc.service_variables, route.service,
                              ProjectVariables(variables, field_variables)))

RECURSIVE PlanFields(_, _, _, _, _, _)
PlanFields(acc, fields, operation_type, variable_defs, schema, variables) ==
    IF ~acc.ok \/ fields = <<>> THEN acc
    ELSE PlanFields(PlanField(acc, Head(fields), operation_type, variable_defs, schema, variables),
                    Tail(fields), operation_type, variable_defs, schema, variables)

\* one iteration of `for def in &doc.definitions`
PlanDefinition(acc, def, schema, variables) ==
    CASE def.kind = "SelectionSet" ->
            PlanFields(acc, extract_fields(def.selection_set), "Query", <<>>, schema, variables)
      [] def.kind \in {"Query", "Mutation", "Subscription"} ->
            PlanFields(acc, extract_fields(def.selection_set), def.kind,
                       def.variable_definitions, schema, variables)
      [] OTHER -> acc

RECURSIVE PlanDefinitions(_, _, _, _)
PlanDefinitions(acc, defs, schema, variables) ==
    IF ~acc.ok \/ defs = <<>> THEN acc
    ELSE PlanDefinitions(PlanDefinition(acc, Head(defs), schema, variables),
                         Tail(defs), schema, variables)

\* (mutation) the plan is returned without the test for an empty service_queries
plan_query_unchecked(query, schema, variables) ==
    LET acc == PlanDefinitions(PlanOk(<<>>, <<>>), query.definitions, schema, variables) IN
    IF ~query.ok THEN PlanErr("Failed to parse query", <<>>)
    ELSE acc

\* plan_query; `query` is what parse_query yields for the query text
plan_query(query, schema, variables) ==
    LET acc == PlanDefinitions(PlanOk(<<>>, <<>>), query.definitions, schema, variables) IN
    IF ~query.ok THEN PlanErr("Failed to parse query", <<>>)
    ELSE IF ~acc.ok THEN acc
    ELSE IF DOMAIN acc.service_queries = {}
    THEN PlanErr("No valid operations found in query", <<>>)
    ELSE acc

----------------------------------------------------------------------------
(* SpecPlan: plan_query applied to bounded inputs *)

Leaf(n) == Field(n, <<>>, <<>>)

\* the top-level selections a client operation is put together from
TopLevelPool ==
    { \* users { id name }
      Field("users", <<>>, << Leaf("id"), Leaf("name") >>),
      \* user(id: $u) { name }
      Field("user", << <<"id", Variable("u")>> >>, << Leaf("name") >>),
      \* product(id: $p) { name }
      Field("product", << <<"id", Variable("p")>> >>, << Leaf("name") >>),
      \* products { id ... on Product { price(currency: $c) } }
      Field("products", <<>>,
            << Leaf("id"),
               InlineFragment("Product",
                   << Field("price", << <<"currency", Variable("c")>> >>, <<>>) >>) >>),
      \* users(filter: {ids: [$u, $p], text: "a\""}, first: 5) { friend(of: $c) { id } ...UserParts }
      Field("users",
            << <<"filter", ObjectValue(<< <<"ids", ListValue(<< Variable("u"), Variable("p") >>)>>,
                                          <<"text", StringValue(<< "a", "\"" >>)>> >>)>>,
               <<"first", IntValue(5)>> >>,
            << Field("friend", << <<"of", Variable("c")>> >>, << Leaf("id") >>),
               FragmentSpread("UserParts") >>),
      \* createUser(input: $i) { id }
      Field("createUser", << <<"input", Variable("i")>> >>, << Leaf("id") >>),
      \* widgets { id }
      Field("widgets", <<>>, << Leaf("id") >>),
      \* ... on Query { users { id } }
      InlineFragment("Query", << Field("users", <<>>, << Leaf("id") >>) >>) }

VariableNames == {"u", "p", "c", "i"}

\* ($u: ID!, $p: ID!, $c: String = USD, $i: CreateUserInput!)
AllVariableDefinitions ==
    << VariableDefinition("u", "ID!", None),
       VariableDefinition("p", "ID!", None),
       VariableDefinition("c", "String", Some(EnumValue("USD"))),
       VariableDefinition("i", "CreateUserInput!", None) >>

SelectionSets == UNION {[1..n -> TopLevelPool] : n \in 1..MaxTopLevel}

Operations ==
    {SelectionSetOp(sels) : sels \in SelectionSets}
    \cup {Operation(k, AllVariableDefinitions, sels) :
              k \in {"Query", "Mutation"}, sels \in SelectionSets}

\* fragment UserParts on User { id avatar(size: $i) }
UserPartsFragment ==
    FragmentDefinition("UserParts", "User",
        << Leaf("id"), Field("avatar", << <<"size", Variable("i")>> >>, <<>>) >>)

\* what parse_query yields: an error, or the document's definitions
QueryParseErr == [ok |-> FALSE, definitions |-> <<>>]
QueryParseOk(defs) == [ok |-> TRUE, definitions |-> defs]

\* operations with one top-level selection, for the documents that hold two operations
SmallOperations ==
    {SelectionSetOp(<< sel >>) : sel \in TopLevelPool}
    \cup {Operation(k, AllVariableDefinitions, << sel >>) :
              k \in {"Query", "Mutation"}, sel \in TopLevelPool}

Documents ==
    {QueryParseErr, QueryParseOk(<< UserPartsFragment >>)}
    \cup {QueryParseOk(<< op >>) : op \in Operations}
    \cup {QueryParseOk(<< op, UserPartsFragment >>) : op \in Operations}
    \cup {QueryParseOk(<< op1, op2 >>) : op1, op2 \in SmallOperations}

\* the client's variables: none, a value for every variable, a value for some, not an object
VariableInputs ==
    { NoVariables,
      ObjectVariables([n \in VariableNames |-> "val_" \o n]),
      ObjectVariables([n \in {"u", "x"} |-> "val_" \o n]),
      NonObjectVariables }

\* the service maps the planner's snapshots are composed from
PlanServiceMaps ==
    { [n \in ServiceNames |->
          IF n = "users" THEN ServiceConfig("users", "http://u", "usersV1")
                         ELSE ServiceConfig("products", "http://p", "products")],
      [n \in ServiceNames |->
          IF n = "users" THEN ServiceConfig("users", "http://u", "usersV2")
                         ELSE ServiceConfig("products", "http://p", "catalog")],
      [n \in {"users"} |-> ServiceConfig("users", "http://u", "usersV1")] }

\* the snapshots get_schema can return for them
PlanSnapshots ==
    UNION { {build_federated_schema(svcs, order).schema : order \in Orderings(DOMAIN svcs)} :
            svcs \in PlanServiceMaps }

PlanIdle ==
    /\ planQuery = QueryParseErr
    /\ planSchema = [services |-> <<>>, type_to_service_map |-> <<>>]
    /\ planVariables = NoVariables
    /\ planResult = None

PlanInit ==
    /\ planQuery \in Documents
    /\ planSchema \in PlanSnapshots
    /\ planVariables \in VariableInputs
    /\ planResult = None

\* SimpleQueryPlanner::plan_query(query, schema, variables)
PlanQuery ==
    /\ UNCHANGED <<regVars, execVars, reqVars, lockVars>>
    /\ planResult = None
    /\ planResult' = Some(plan_query(planQuery, planSchema, planVariables))
    /\ UNCHANGED <<planQuery, planSchema, planVariables>>

----------------------------------------------------------------------------
(* JSON values (serde_json::Value) *)

JObject(f) == [kind |-> "object", str |-> "", items |-> <<>>, fields |-> f]
JArray(s) == [kind |-> "array", str |-> "", items |-> s, fields |-> <<>>]
JString(s) == [kind |-> "string", str |-> s, items |-> <<>>, fields |-> <<>>]
JNull == [kind |-> "null", str |-> "", items |-> <<>>, fields |-> <<>>]

\* Value::get(key): Some(member) of an object that has the key, None otherwise
Get(value, key) ==
    IF value.kind = "object" /\ key \in DOMAIN value.fields
    THEN Some(value.fields[key]) ELSE None

----------------------------------------------------------------------------
(* HttpQueryExecutor::execute_plan *)

\* json!({"query": query_clone, "variables": {}})
RequestVariables(plan, service_name) == JObject(<<>>)

RequestBody(plan, service_name) ==
    JObject(("query" :> JString(plan.service_queries[service_name]))
            @@ ("variables" :> RequestVariables(plan, service_name)))

\* client.post(&service_url).header("Content-Type", "application/json").json(&request_body)
Request(plan, schema, service_name) ==
    [url |-> schema.services[service_name].url,
     headers |-> ("Content-Type" :> "application/json"),
     body |-> RequestBody(plan, service_name)]

\* How a server answers: the transport fails, or a response with a status and a
\* body that is JSON or not.
SendFailed == [transport |-> "failed", status |-> 0, json |-> FALSE, value |-> JNull]
\* the server takes the request and never answers
NoAnswer == [transport |-> "silent", status |-> 0, json |-> FALSE, value |-> JNull]
Response(st, val) == [transport |-> "ok", status |-> st, json |-> TRUE, value |-> val]
NotJson(st) == [transport |-> "ok", status |-> st, json |-> FALSE, value |-> JNull]

FutureOk(service_name, response) ==
    [ok |-> TRUE, service |-> service_name, response |-> response, error |-> ""]
FutureErr(service_name, e) ==
    [ok |-> FALSE, service |-> service_name, response |-> JNull, error |-> e]

\* the value of one service's future: send().await?, then response.json().await?
FutureResult(service_name, answer) ==
    IF answer.transport # "ok"
    THEN FutureErr(service_name, "Failed to send request to " \o service_name)
    ELSE IF ~answer.json
    THEN FutureErr(service_name, "Failed to parse response from " \o service_name)
    ELSE FutureOk(service_name, answer.value)

\* if let Value::Object(merged_obj) = merged_data["data"] { insert } else { = json!({key: value}) }
MergeDataField(merged, key, value) ==
    IF "data" \in DOMAIN merged /\ merged["data"].kind = "object"
    THEN [merged EXCEPT !["data"] = JObject((key :> value) @@ @.fields)]
    ELSE ("data" :> JObject(key :> value)) @@ merged

\* for (key, value) in fields
RECURSIVE MergeDataFields(_, _, _)
MergeDataFields(merged, fields, keys) ==
    IF keys = {} THEN merged
    ELSE LET key == CHOOSE k \in keys : TRUE IN
         MergeDataFields(MergeDataField(merged, key, fields[key]), fields, keys \ {key})

\* if let Some(data) = response.get("data") { if let Value::Object(fields) = data { .. } }
MergeData(merged, response) ==
    LET data == Get(response, "data") IN
    IF data.some /\ data.value.kind = "object"
    THEN MergeDataFields(merged, data.value.fields, DOMAIN data.value.fields)
    ELSE merged

\* error_obj.insert("service", Value::String(service_name)) on the errors that are objects
TagError(error, service_name) ==
    IF error.kind = "object"
    THEN JObject(("service" :> JString(service_name)) @@ error.fields)
    ELSE error

\* (mutation) the errors array is overwritten by the new errors
ReplaceErrors(merged, new_errors) == ("errors" :> JArray(new_errors)) @@ merged

\* merged_errors.extend(..) on an existing array, merged_data["errors"] = .. otherwise
ExtendErrors(merged, new_errors) ==
    IF "errors" \in DOMAIN merged /\ merged["errors"].kind = "array"
    THEN [merged EXCEPT !["errors"] = JArray(@.items \o new_errors)]
    ELSE ("errors" :> JArray(new_errors)) @@ merged

\* if let Some(errors) = response.get("errors") { if let Value::Array(error_list) .. }
MergeErrors(merged, response, service_name) ==
    LET errors == Get(response, "errors") IN
    IF errors.some /\ errors.value.kind = "array" /\ errors.value.items # <<>>
    THEN ExtendErrors(merged, [i \in 1..Len(errors.value.items) |->
                                   TagError(errors.value.items[i], service_name)])
    ELSE merged

\* json!({"message": format!("Execution error: {}", e)})
ExecutionError(e) == JObject("message" :> JString("Execution error: " \o e))

\* one iteration of `for result in results`
MergeResult(merged, res) ==
    IF res.ok
    THEN MergeErrors(MergeData(merged, res.response), res.response, res.service)
    ELSE ExtendErrors(merged, << ExecutionError(res.error) >>)

RECURSIVE MergeResults(_, _)
MergeResults(merged, results) ==
    IF results = <<>> THEN merged
    ELSE MergeResults(MergeResult(merged, Head(results)), Tail(results))

ExecOk(value) == [ok |-> TRUE, value |-> value, error |-> ""]

\* the merge loop over join_all's results (in the order of the futures) and Ok(merged_data)
MergedResponse(results) == ExecOk(JObject(MergeResults(<<>>, results)))

----------------------------------------------------------------------------
(* SpecExec: execute_plan applied to bounded plans and upstream answers *)

ExecSnapshotFull ==
    build_federated_schema(
        [n \in ServiceNames |->
            IF n = "users" THEN ServiceConfig("users", "http://u", "usersV1")
                           ELSE ServiceConfig("products", "http://p", "products")],
        << "users", "products" >>).schema

\* a snapshot that holds service users only
ExecSnapshotUsers ==
    build_federated_schema(
        [n \in {"users"} |-> ServiceConfig("users", "http://u", "usersV1")],
        << "users" >>).schema

ExecSnapshots == {ExecSnapshotFull, ExecSnapshotUsers}

\* the client requests whose plans are executed
ExecRequests ==
    { \* { users { id name } }
      [query |-> QueryParseOk(<< SelectionSetOp(
                     << Field("users", <<>>, << Leaf("id"), Leaf("name") >>) >>) >>),
       variables |-> NoVariables],
      \* query($u: ID!, $p: ID!, ...) { user(id: $u) { name } product(id: $p) { name } }
      [query |-> QueryParseOk(<< Operation("Query", AllVariableDefinitions,
                     << Field("user", << <<"id", Variable("u")>> >>, << Leaf("name") >>),
                        Field("product", << <<"id", Variable("p")>> >>, << Leaf("name") >>) >>) >>),
       variables |-> ObjectVariables([n \in VariableNames |-> "val_" \o n])],
      \* { users { id name } product(id: 5) { name } }
      [query |-> QueryParseOk(<< SelectionSetOp(
                     << Field("users", <<>>, << Leaf("id"), Leaf("name") >>),
                        Field("product", << <<"id", IntValue(5)>> >>, << Leaf("name") >>) >>) >>),
       variables |-> NoVariables] }

\* their plans, made by plan_query against the full snapshot
ExecPlans ==
    {plan_query(rq.query, ExecSnapshotFull, rq.variables) : rq \in ExecRequests}

ErrorObject(msg) == JObject("message" :> JString(msg))

\* the ways the server of service s may answer
Answers(s) ==
    { SendFailed,
      NoAnswer,
      NotJson(200),
      Response(500, JObject("errors" :> JArray(<< ErrorObject("internal@" \o s) >>))),
      Response(200, JObject("data" :> JObject(s :> JString("rows@" \o s)))),
      Response(200, JObject(("data" :> JObject((s :> JString("rows@" \o s))
                                               @@ ("node" :> JString("node@" \o s))))
                            @@ ("errors" :> JArray(<< ErrorObject("e1@" \o s),
                                    JObject(("message" :> JString("e2@" \o s))
                                            @@ ("service" :> JString("upstream"))) >>)))),
      Response(200, JObject("data" :> JObject(<<>>))),
      Response(200, JObject(("data" :> JNull)
                            @@ ("errors" :> JArray(<< JString("plain@" \o s) >>)))),
      Response(200, JObject("errors" :> JString("oops"))),
      Response(200, JArray(<<>>)),
      Response(200, JObject(("data" :> JObject("node" :> JString("node@" \o s)))
                            @@ ("errors" :> JArray(<<>>)))) }

\* GraphQLRequest.auth_headers as extract_auth_headers fills it: None, or
\* Some(map) with the Authorization, x-api-key and x-token headers of the client
AuthHeaderInputs ==
    { None,
      Some("Authorization" :> "Bearer t1"),
      Some(("Authorization" :> "Bearer t1") @@ ("x-api-key" :> "k1")) }

ExecIdle ==
    /\ execPlan = PlanErr("", <<>>)
    /\ execSchema = [services |-> <<>>, type_to_service_map |-> <<>>]
    /\ auth_headers = None
    /\ upstream = <<>>
    /\ execPc = "idle"
    /\ futures = <<>>
    /\ sent = <<>>
    /\ outcome = <<>>
    /\ execResult = None
    /\ prevResult = None
    /\ runs = 0

ExecInit ==
    /\ execPlan \in ExecPlans
    /\ execSchema \in ExecSnapshots
    /\ auth_headers \in AuthHeaderInputs
    /\ \E au \in Answers("users"), ap \in Answers("products") :
          upstream = [n \in ServiceNames |-> IF n = "users" THEN au ELSE ap]
    /\ execPc = "ready"
    /\ futures = <<>>
    /\ sent = <<>>
    /\ outcome = <<>>
    /\ execResult = None
    /\ prevResult = None
    /\ runs = 0

\* the loop `for (service_name, query) in plan.service_queries`: the map is
\* visited in its iteration order and a future is pushed for each service that
\* schema.services holds
FuturesFor(plan, schema, order) ==
    SelectSeq(order, LAMBDA service_name : service_name \in DOMAIN schema.services)

ExecStart ==
    /\ UNCHANGED <<regVars, planVars, reqVars, lockVars>>
    /\ execPc = "ready"
    /\ runs < MaxRuns
    /\ \E order \in Orderings(DOMAIN execPlan.service_queries) :
          futures' = FuturesFor(execPlan, execSchema, order)
    /\ execPc' = "running"
    /\ runs' = runs + 1
    /\ UNCHANGED <<execPlan, execSchema, auth_headers, upstream, sent, outcome, execResult,
                   prevResult>>

\* a future builds its request and dispatches it: .send()
ExecSend(service_name) ==
    /\ UNCHANGED <<regVars, planVars, reqVars, lockVars>>
    /\ execPc = "running"
    /\ service_name \in Range(futures)
    /\ service_name \notin DOMAIN sent
    /\ sent' = (service_name :> Request(execPlan, execSchema, service_name)) @@ sent
    /\ UNCHANGED <<execPlan, execSchema, auth_headers, upstream, execPc, futures, outcome, execResult,
                   prevResult, runs>>

\* the server's answer arrives (or the transport fails) and the future completes
ExecAnswer(service_name) ==
    /\ UNCHANGED <<regVars, planVars, reqVars, lockVars>>
    /\ execPc = "running"
    /\ service_name \in DOMAIN sent
    /\ service_name \notin DOMAIN outcome
    /\ upstream[service_name] # NoAnswer
    /\ outcome' = (service_name :> FutureResult(service_name, upstream[service_name])) @@ outcome
    /\ UNCHANGED <<execPlan, execSchema, auth_headers, upstream, execPc, futures, sent, execResult,
                   prevResult, runs>>

\* (mutation) the results at hand are merged without waiting for the other futures
ExecMergeEarly ==
    /\ UNCHANGED <<regVars, planVars, reqVars, lockVars>>
    /\ execPc = "running"
    /\ execResult' = Some(MergedResponse(
           LET ready == SelectSeq(futures, LAMBDA s : s \in DOMAIN outcome) IN
           [i \in 1..Len(ready) |-> outcome[ready[i]]]))
    /\ execPc' = "done"
    /\ UNCHANGED <<execPlan, execSchema, auth_headers, upstream, futures, sent, outcome, prevResult, runs>>

\* join_all(futures).await has every result; merge them and return
ExecMerge ==
    /\ UNCHANGED <<regVars, planVars, reqVars, lockVars>>
    /\ execPc = "running"
    /\ Range(futures) \subseteq DOMAIN outcome
    /\ execResult' = Some(MergedResponse([i \in 1..Len(futures) |-> outcome[futures[i]]]))
    /\ execPc' = "done"
    /\ UNCHANGED <<execPlan, execSchema, auth_headers, upstream, futures, sent, outcome, prevResult, runs>>

\* execute_plan is called again with an equal plan and an equal snapshot
ExecAgain ==
    /\ UNCHANGED <<regVars, planVars, reqVars, lockVars>>
    /\ execPc = "done"
    /\ runs < MaxRuns
    /\ prevResult' = execResult
    /\ execResult' = None
    /\ futures' = <<>>
    /\ sent' = <<>>
    /\ outcome' = <<>>
    /\ execPc' = "ready"
    /\ UNCHANGED <<execPlan, execSchema, auth_headers, upstream, runs>>

----------------------------------------------------------------------------
(* SpecRequest: FederationGateway::process_request, from call to return *)

ReqOk(value) == [ok |-> TRUE, value |-> value, error |-> ""]
ReqErr(e) == [ok |-> FALSE, value |-> JNull, error |-> e]

\* format!("Failed to parse schema for service {}: {}", service_name, e)
SchemaErrorText(r) == "Failed to parse schema for service " \o r.service

\* the Err(String) of plan_query
PlanErrorText(plan) ==
    IF plan.at = <<>> THEN plan.error
    ELSE plan.error \o ": " \o plan.at[2] \o " in operation: " \o plan.at[1]

\* InMemorySchemaRegistry::get_schema as one step: the cached snapshot when
\* there is one, the composition of the service map otherwise
get_schema(cache, svcs, order) ==
    IF cache.some
    THEN BuildOk(cache.value.services, cache.value.type_to_service_map)
    ELSE build_federated_schema(svcs, order)

\* the cache cell after get_schema: a snapshot that was built is installed
CacheAfterGetSchema(cache, svcs, order) ==
    IF cache.some THEN cache
    ELSE LET r == build_federated_schema(svcs, order) IN
         IF r.ok THEN Some(r.schema) ELSE None

\* the service maps the registry may hold when the request comes in
ReqServiceMaps ==
    { <<>>,
      [n \in {"users"} |-> ServiceConfig("users", "http://u", "usersV1")],
      [n \in ServiceNames |->
          IF n = "users" THEN ServiceConfig("users", "http://u", "usersV1")
                         ELSE ServiceConfig("products", "http://p", "products")],
      [n \in ServiceNames |->
          IF n = "users" THEN ServiceConfig("users", "http://u", "usersV1")
                         ELSE ServiceConfig("products", "http://p", "broken")] }

\* the client requests: those of ExecRequests, one for a field that no service
\* owns, and one whose query text does not parse
ReqRequests ==
    ExecRequests
    \cup { [query |-> QueryParseOk(<< SelectionSetOp(
                          << Field("widgets", <<>>, << Leaf("id") >>) >>) >>),
            variables |-> NoVariables],
           [query |-> QueryParseErr, variables |-> NoVariables] }

ReqIdle ==
    /\ reqPc = "none"
    /\ reqSchema = None
    /\ reqResult = None

\* the registry after the registrations that made `services`, with the cache
\* empty or filled by an earlier request
ReqRegistry ==
    /\ services \in ReqServiceMaps
    /\ iteration_order \in Orderings(DOMAIN services)
    /\ growth_left = CapacityFor(Cardinality(DOMAIN services)) - Cardinality(DOMAIN services)
    /\ federated_schema \in
           {None} \cup {Some(r.schema) : r \in {x \in {build_federated_schema(services,
                                                            iteration_order)} : x.ok}}
    /\ regReaders = {}
    /\ regWriter = NoTask
    /\ svcReaders = {}
    /\ svcWriter = NoTask
    /\ pc = [t \in Tasks |-> "idle"]
    /\ arg = [t \in Tasks |-> NoCfg]
    /\ built = [t \in Tasks |-> None]
    /\ result = [t \in Tasks |-> None]
    /\ calls = 0
    /\ lastReturned = [n \in ServiceNames |-> IF n \in DOMAIN services THEN services[n] ELSE NoCfg]
    /\ prevReturned = [n \in ServiceNames |-> NoCfg]
    /\ seenAtStart = [t \in Tasks |-> [n \in ServiceNames |-> NoCfg]]
    /\ cacheAtStart = [t \in Tasks |-> None]
    /\ idem = [base |-> None, repeat |-> OtherChange, pair |-> None]

\* process_request(request) has been called
ReqInit ==
    /\ \E rq \in ReqRequests : planQuery = rq.query /\ planVariables = rq.variables
    /\ planSchema = [services |-> <<>>, type_to_service_map |-> <<>>]
    /\ planResult = None
    /\ execPlan = PlanErr("", <<>>)
    /\ execSchema = [services |-> <<>>, type_to_service_map |-> <<>>]
    /\ auth_headers \in AuthHeaderInputs
    /\ \E au \in Answers("users"), ap \in Answers("products") :
          upstream = [n \in ServiceNames |-> IF n = "users" THEN au ELSE ap]
    /\ execPc = "idle"
    /\ futures = <<>>
    /\ sent = <<>>
    /\ outcome = <<>>
    /\ execResult = None
    /\ prevResult = None
    /\ runs = 0
    /\ reqPc = "get_schema"
    /\ reqSchema = None
    /\ reqResult = None

\* process_request: schema_registry.read().await, get_schema().await?,
\* drop(schema_registry)
Req_GetSchema ==
    /\ reqPc = "get_schema"
    /\ regWriter = NoTask
    /\ LET r == get_schema(federated_schema, services, iteration_order) IN
       /\ reqSchema' = Some(r)
       /\ federated_schema' = CacheAfterGetSchema(federated_schema, services, iteration_order)
       /\ IF r.ok
          THEN /\ planSchema' = r.schema
               /\ reqPc' = "plan_query"
               /\ UNCHANGED reqResult
          ELSE /\ reqResult' = Some(ReqErr(SchemaErrorText(r)))
               /\ reqPc' = "returned"
               /\ UNCHANGED planSchema
    /\ UNCHANGED <<services, iteration_order, growth_left, regReaders, regWriter, svcReaders,
                   svcWriter, pc, arg, built, result, calls, lastReturned, prevReturned,
                   seenAtStart, cacheAtStart, idem>>
    /\ UNCHANGED <<planQuery, planVariables, planResult, execVars, lockVars>>

\* the configs another client registers while the request is in flight: a
\* service with another url, with another schema, and a service added
ReqConfigs ==
    { ServiceConfig("users", "http://u2", "usersV1"),
      ServiceConfig("users", "http://u", "usersV2"),
      ServiceConfig("products", "http://p", "products") }

\* FederationGateway::register_service(service), called by another client,
\* runs from its call to its return after the request has got its snapshot
Req_RegisterService(service) ==
    /\ reqPc \in {"plan_query", "execute_plan"}
    /\ regWriter = NoTask
    /\ regReaders = {}
    /\ calls < MaxMeanwhile
    /\ calls' = calls + 1
    /\ services' = InsertService(services, service)
    /\ iteration_order' \in OrdersAfterInsert(services, iteration_order, growth_left, service.name)
    /\ growth_left' = GrowthLeftAfterInsert(services, growth_left, service.name)
    /\ idem' = IdemAfterInsert(idem, services, service)
    /\ federated_schema' = InvalidatedCache(federated_schema)
    /\ lastReturned' = [lastReturned EXCEPT ![service.name] = service]
    /\ prevReturned' = [prevReturned EXCEPT ![service.name] = lastReturned[service.name]]
    /\ UNCHANGED <<regReaders, regWriter, svcReaders, svcWriter, pc, arg, built, result,
                   seenAtStart, cacheAtStart>>
    /\ UNCHANGED <<planVars, execVars, reqVars, lockVars>>

\* (mutation) execute_plan is given the service map as the registry holds it now
Req_PlanQueryLiveServices ==
    /\ reqPc = "plan_query"
    /\ LET plan == plan_query(planQuery, planSchema, planVariables) IN
       /\ planResult' = Some(plan)
       /\ IF plan.ok
          THEN /\ execPlan' = plan
               /\ execSchema' = [planSchema EXCEPT !.services = services]
               /\ execPc' = "ready"
               /\ reqPc' = "execute_plan"
               /\ UNCHANGED reqResult
          ELSE /\ reqResult' = Some(ReqErr(PlanErrorText(plan)))
               /\ reqPc' = "returned"
               /\ UNCHANGED <<execPlan, execSchema, execPc>>
    /\ UNCHANGED <<regVars, planQuery, planSchema, planVariables, reqSchema, lockVars>>
    /\ UNCHANGED <<auth_headers, upstream, futures, sent, outcome, execResult, prevResult, runs>>

\* (mutation) execute_plan is called whatever plan_query returned
Req_PlanQueryThenExecute ==
    /\ reqPc = "plan_query"
    /\ LET plan == plan_query(planQuery, planSchema, planVariables) IN
       /\ planResult' = Some(plan)
       /\ execPlan' = plan
       /\ execSchema' = planSchema
       /\ execPc' = "ready"
       /\ reqPc' = "execute_plan"
       /\ UNCHANGED reqResult
    /\ UNCHANGED <<regVars, planQuery, planSchema, planVariables, reqSchema, lockVars>>
    /\ UNCHANGED <<auth_headers, upstream, futures, sent, outcome, execResult, prevResult, runs>>

\* process_request: plan_query(&request.query, &schema, request.variables).await?
\* and, with the plan, the call of execute_plan(query_plan, &schema)
Req_PlanQuery ==
    /\ reqPc = "plan_query"
    /\ LET plan == plan_query(planQuery, planSchema, planVariables) IN
       /\ planResult' = Some(plan)
       /\ IF plan.ok
          THEN /\ execPlan' = plan
               /\ execSchema' = planSchema
               /\ execPc' = "ready"
               /\ reqPc' = "execute_plan"
               /\ UNCHANGED reqResult
          ELSE /\ reqResult' = Some(ReqErr(PlanErrorText(plan)))
               /\ reqPc' = "returned"
               /\ UNCHANGED <<execPlan, execSchema, execPc>>
    /\ UNCHANGED <<regVars, planQuery, planSchema, planVariables, reqSchema, lockVars>>
    /\ UNCHANGED <<auth_headers, upstream, futures, sent, outcome, execResult, prevResult, runs>>

\* process_request: execute_plan(..).await? has returned; Ok(response)
Req_Return ==
    /\ reqPc = "execute_plan"
    /\ execPc = "done"
    /\ reqResult' = Some(IF execResult.value.ok THEN ReqOk(execResult.value.value)
                         ELSE ReqErr(execResult.value.error))
    /\ reqPc' = "returned"
    /\ UNCHANGED <<regVars, planVars, execVars, reqSchema, lockVars>>

----------------------------------------------------------------------------
(* SpecLocks: the same calls, with the guards of the cache lock as steps *)

\* no task holds the cache lock
LockIdle ==
    /\ cacheReaders = {}
    /\ cacheWriter = NoTask

\* the configs registered while the locks are watched: one whose schema
\* parses and one whose schema does not
LockConfigs ==
    { ServiceConfig("users", "http://u", "usersV1"),
      ServiceConfig("products", "http://p", "broken") }

\* get_schema: self.federated_schema.read().await
GS_LockCacheRead(t) ==
    /\ pc[t] = "gs_cache"
    /\ cacheWriter = NoTask
    /\ cacheReaders' = cacheReaders \cup {t}
    /\ pc' = [pc EXCEPT ![t] = "gs_cache_held"]
    /\ UNCHANGED <<iteration_order, growth_left, idem, cacheAtStart,
                   services, federated_schema, regReaders, regWriter, svcReaders,
                   svcWriter, arg, built, result, calls, lastReturned, prevReturned,
                   seenAtStart>>
    /\ UNCHANGED <<cacheWriter, planVars, execVars, reqVars>>

\* (mutation) the read guard of the cache is kept when the cache is empty
GS_CheckCacheKeepGuard(t) ==
    /\ pc[t] = "gs_cache_held"
    /\ IF federated_schema.some
       THEN /\ result' = [result EXCEPT ![t] = Some(BuildOk(federated_schema.value.services,
                                                  federated_schema.value.type_to_service_map))]
            /\ idem' = IdemAfterSnapshot(idem, federated_schema.value)
            /\ cacheReaders' = cacheReaders \ {t}
            /\ pc' = [pc EXCEPT ![t] = "pr_drop"]
       ELSE /\ pc' = [pc EXCEPT ![t] = "gs_services"]
            /\ UNCHANGED <<result, idem, cacheReaders>>
    /\ UNCHANGED <<iteration_order, growth_left, cacheAtStart,
                   services, federated_schema, regReaders, regWriter, svcReaders,
                   svcWriter, arg, built, calls, lastReturned, prevReturned, seenAtStart>>
    /\ UNCHANGED <<cacheWriter, planVars, execVars, reqVars>>

\* get_schema: if let Some(schema) = &*cached_schema { return Ok(schema.clone()) }
\* (the guard goes with the return); otherwise drop(cached_schema)
GS_CheckCache(t) ==
    /\ pc[t] = "gs_cache_held"
    /\ IF federated_schema.some
       THEN /\ result' = [result EXCEPT ![t] = Some(BuildOk(federated_schema.value.services,
                                                  federated_schema.value.type_to_service_map))]
            /\ idem' = IdemAfterSnapshot(idem, federated_schema.value)
            /\ pc' = [pc EXCEPT ![t] = "pr_drop"]
       ELSE /\ pc' = [pc EXCEPT ![t] = "gs_services"]
            /\ UNCHANGED <<result, idem>>
    /\ cacheReaders' = cacheReaders \ {t}
    /\ UNCHANGED <<iteration_order, growth_left, cacheAtStart,
                   services, federated_schema, regReaders, regWriter, svcReaders,
                   svcWriter, arg, built, calls, lastReturned, prevReturned, seenAtStart>>
    /\ UNCHANGED <<cacheWriter, planVars, execVars, reqVars>>

\* get_schema: self.federated_schema.write().await, with the services read
\* guard held
GS_LockCacheWrite(t) ==
    /\ pc[t] = "gs_install"
    /\ cacheWriter = NoTask
    /\ cacheReaders = {}
    /\ cacheWriter' = t
    /\ pc' = [pc EXCEPT ![t] = "gs_install_held"]
    /\ UNCHANGED <<iteration_order, growth_left, idem, cacheAtStart,
                   services, federated_schema, regReaders, regWriter, svcReaders,
                   svcWriter, arg, built, result, calls, lastReturned, prevReturned,
                   seenAtStart>>
    /\ UNCHANGED <<cacheReaders, planVars, execVars, reqVars>>

\* get_schema: *cached_schema = Some(schema.clone()); Ok(schema) -- the services
\* read guard and the cache write guard are dropped on return
GS_StoreCache(t) ==
    /\ pc[t] = "gs_install_held"
    /\ federated_schema' = Some(built[t].value)
    /\ idem' = IdemAfterSnapshot(idem, built[t].value)
    /\ result' = [result EXCEPT ![t] = Some(BuildOk(built[t].value.services,
                                                  built[t].value.type_to_service_map))]
    /\ built' = [built EXCEPT ![t] = None]
    /\ svcReaders' = svcReaders \ {t}
    /\ cacheWriter' = NoTask
    /\ pc' = [pc EXCEPT ![t] = "pr_drop"]
    /\ UNCHANGED <<iteration_order, growth_left, cacheAtStart,
                   services, regReaders, regWriter, svcWriter, arg, calls,
                   lastReturned, prevReturned, seenAtStart>>
    /\ UNCHANGED <<cacheReaders, planVars, execVars, reqVars>>

\* register_service (registry): self.federated_schema.write().await, with the
\* services write guard and the facade's write guard held
RS_LockCacheWrite(t) ==
    /\ pc[t] = "rs_cache"
    /\ cacheWriter = NoTask
    /\ cacheReaders = {}
    /\ cacheWriter' = t
    /\ pc' = [pc EXCEPT ![t] = "rs_cache_held"]
    /\ UNCHANGED <<iteration_order, growth_left, idem, cacheAtStart,
                   services, federated_schema, regReaders, regWriter, svcReaders,
                   svcWriter, arg, built, result, calls, lastReturned, prevReturned,
                   seenAtStart>>
    /\ UNCHANGED <<cacheReaders, planVars, execVars, reqVars>>

\* register_service (registry): *federated_schema = None; Ok(()) -- the three
\* guards are dropped on return
RS_ClearCacheAndReturn(t) ==
    /\ pc[t] = "rs_cache_held"
    /\ federated_schema' = InvalidatedCache(federated_schema)
    /\ cacheWriter' = NoTask
    /\ svcWriter' = NoTask
    /\ regWriter' = NoTask
    /\ lastReturned' = [lastReturned EXCEPT ![arg[t].name] = arg[t]]
    /\ prevReturned' = [prevReturned EXCEPT ![arg[t].name] = lastReturned[arg[t].name]]
    /\ arg' = [arg EXCEPT ![t] = NoCfg]
    /\ pc' = [pc EXCEPT ![t] = "idle"]
    /\ UNCHANGED <<iteration_order, growth_left, idem, cacheAtStart,
                   services, regReaders, svcReaders, built, result, calls, seenAtStart>>
    /\ UNCHANGED <<cacheReaders, planVars, execVars, reqVars>>

----------------------------------------------------------------------------
(* Specifications *)

Init == RegInit /\ PlanIdle /\ ExecIdle /\ ReqIdle /\ LockIdle

Spec == Init /\ [][Next]_vars

\* the registry after register_service has returned for three services: the
\* table made by the first insert holds three entries and is full
GrownServices ==
    ("users" :> ServiceConfig("users", "http://u", "usersV1"))
    @@ ("products" :> ServiceConfig("products", "http://p", "products"))
    @@ ("reviews" :> ServiceConfig("reviews", "http://r", "reviews"))

RegGrown ==
    /\ services = GrownServices
    /\ iteration_order \in Orderings(DOMAIN GrownServices)
    /\ growth_left = 0
    /\ federated_schema = None
    /\ regReaders = {}
    /\ regWriter = NoTask
    /\ svcReaders = {}
    /\ svcWriter = NoTask
    /\ pc = [t \in Tasks |-> "idle"]
    /\ arg = [t \in Tasks |-> NoCfg]
    /\ built = [t \in Tasks |-> None]
    /\ result = [t \in Tasks |-> None]
    /\ calls = 0
    /\ lastReturned = [n \in ServiceNames |-> GrownServices[n]]
    /\ prevReturned = [n \in ServiceNames |-> NoCfg]
    /\ seenAtStart = [t \in Tasks |-> [n \in ServiceNames |-> NoCfg]]
    /\ cacheAtStart = [t \in Tasks |-> None]
    /\ idem = [base |-> None, repeat |-> OtherChange, pair |-> None]

InitGrown == RegGrown /\ PlanIdle /\ ExecIdle /\ ReqIdle /\ LockIdle

SpecGrown == InitGrown /\ [][Next]_vars

InitPlan == RegInit /\ PlanInit /\ ExecIdle /\ ReqIdle /\ LockIdle

NextPlan == PlanQuery

SpecPlan == InitPlan /\ [][NextPlan]_vars

InitExec == RegInit /\ PlanIdle /\ ExecInit /\ ReqIdle /\ LockIdle

NextExec ==
    \/ ExecStart
    \/ \E service_name \in ServiceNames : ExecSend(service_name)
    \/ \E service_name \in ServiceNames : ExecAnswer(service_name)
    \/ ExecMerge
    \/ ExecAgain

SpecExec == InitExec /\ [][NextExec]_vars

\* the runtime keeps polling the futures of execute_plan: a step of the call
\* that can be taken is taken
ExecFairness ==
    /\ WF_vars(ExecStart)
    /\ \A service_name \in ServiceNames :
           WF_vars(ExecSend(service_name)) /\ WF_vars(ExecAnswer(service_name))
    /\ WF_vars(ExecMerge)

SpecExecFair == SpecExec /\ ExecFairness

InitRequest == ReqRegistry /\ ReqInit /\ LockIdle

NextRequest ==
    \/ Req_GetSchema
    \/ \E service \in ReqConfigs : Req_RegisterService(service)
    \/ Req_PlanQuery
    \/ ExecStart
    \/ \E service_name \in ServiceNames : ExecSend(service_name)
    \/ \E service_name \in ServiceNames : ExecAnswer(service_name)
    \/ ExecMerge
    \/ Req_Return

SpecRequest == InitRequest /\ [][NextRequest]_vars

InitLocks == RegInit /\ PlanIdle /\ ExecIdle /\ ReqIdle /\ LockIdle

NextLocks ==
    \E t \in Tasks :
        \/ calls < MaxLockCalls /\ CallProcessRequest(t)
        \/ calls < MaxLockCalls /\ \E service \in LockConfigs : CallRegisterService(t, service)
        \/ PR_ReadRegistry(t)
        \/ GS_LockCacheRead(t)
        \/ GS_CheckCache(t)
        \/ GS_ReadServices(t)
        \/ GS_Build(t)
        \/ GS_LockCacheWrite(t)
        \/ GS_StoreCache(t)
        \/ PR_DropRegistry(t)
        \/ RS_WriteRegistry(t)
        \/ RS_InsertService(t)
        \/ RS_LockCacheWrite(t)
        \/ RS_ClearCacheAndReturn(t)

\* the steps of the call a task is in, once the call has started
TaskStep(t) ==
    \/ PR_ReadRegistry(t)
    \/ GS_LockCacheRead(t)
    \/ GS_CheckCache(t)
    \/ GS_ReadServices(t)
    \/ GS_Build(t)
    \/ GS_LockCacheWrite(t)
    \/ GS_StoreCache(t)
    \/ PR_DropRegistry(t)
    \/ RS_WriteRegistry(t)
    \/ RS_InsertService(t)
    \/ RS_LockCacheWrite(t)
    \/ RS_ClearCacheAndReturn(t)

\* the runtime keeps polling the tasks and a lock that stays free is granted
\* to a task waiting for it: a step of a call that can be taken from now on
\* is taken; nothing obliges a client to start a call
LockFairness == \A t \in Tasks : WF_vars(TaskStep(t))

SpecLocks == InitLocks /\ [][NextLocks]_vars /\ LockFairness

----------------------------------------------------------------------------
(* Properties of the registry and the facade *)

\* A task whose get_schema has just returned Ok(snapshot)
GotSchema(t) == pc[t] = "pr_drop" /\ result[t].some /\ result[t].value.ok
Snapshot(t) == result[t].value.schema

\* The services listed under key k of a snapshot (none when the key is absent)
Owners(snap, k) ==
    IF k \in DOMAIN snap.type_to_service_map
    THEN Range(snap.type_to_service_map[k])
    ELSE {}

\* C1: once register_service(S) has returned, every get_schema that starts
\* afterwards and succeeds returns a snapshot whose services map holds S under
\* S.name and whose type_to_service_map lists S.name under every key that
\* S.schema emits.
C1_RegisteredServiceInSnapshot ==
    \A t \in Tasks : GotSchema(t) =>
        \A n \in ServiceNames :
            LET S == seenAtStart[t][n] IN
            S # NoCfg =>
                /\ n \in DOMAIN Snapshot(t).services
                /\ Snapshot(t).services[n] = S
                /\ \A k \in SchemaKeySet(S.schema) : n \in Owners(Snapshot(t), k)

\* Witness of C1: a get_schema that started after two different registrations
\* of one name had returned has itself returned a snapshot, while the other
\* service is registered too.
C1_Witness ==
    \E t \in Tasks :
        /\ GotSchema(t)
        /\ \A n \in ServiceNames : seenAtStart[t][n] # NoCfg
        /\ \E n \in ServiceNames : prevReturned[n] # NoCfg /\ prevReturned[n] # seenAtStart[t][n]

\* C2: when register_service(S') has replaced an earlier registration S of the
\* same name, every later successful get_schema lists that name only under keys
\* that S'.schema emits; a key that only the old schema emitted either lists
\* other services that emit it or is absent.
C2_NoStaleKeysAfterReplace ==
    \A t \in Tasks : GotSchema(t) =>
        \A n \in ServiceNames :
            LET new == seenAtStart[t][n]
                old == prevReturned[n]
            IN  (new # NoCfg /\ old # NoCfg /\ lastReturned[n] = new) =>
                    /\ \A k \in DOMAIN Snapshot(t).type_to_service_map :
                          n \in Owners(Snapshot(t), k) => k \in SchemaKeySet(new.schema)
                    /\ \A k \in SchemaKeySet(old.schema) \ SchemaKeySet(new.schema) :
                          k \in DOMAIN Snapshot(t).type_to_service_map =>
                              \E m \in DOMAIN Snapshot(t).services :
                                  /\ m # n
                                  /\ k \in SchemaKeySet(Snapshot(t).services[m].schema)
                                  /\ m \in Owners(Snapshot(t), k)

\* Witness of C2: a snapshot returned after a replacement whose old schema
\* emitted keys that the new one does not.
C2_Witness ==
    \E t \in Tasks :
        /\ GotSchema(t)
        /\ \E n \in ServiceNames :
              /\ seenAtStart[t][n] # NoCfg
              /\ prevReturned[n] # NoCfg
              /\ lastReturned[n] = seenAtStart[t][n]
              /\ SchemaKeySet(prevReturned[n].schema) \ SchemaKeySet(seenAtStart[t][n].schema) # {}

\* C15: when between two snapshots returned by get_schema the only
\* registrations were repetitions of a ServiceConfig already registered with
\* the same name, url and schema, the two snapshots have the same
\* type_to_service_map, with the owners of every key in the same order.
C15_RepeatedRegistrationKeepsIndex ==
    idem.pair.some => idem.pair.value.first = idem.pair.value.second

\* C17: a snapshot returned by get_schema is the full composition of the
\* service map as it stands while the caller holds the registry: its services
\* field is that map and its index is what build_federated_schema makes of
\* all of it, whatever registrations run beside the call.
C17_SnapshotIsFullComposition ==
    \A t \in Tasks : GotSchema(t) =>
        /\ Snapshot(t).services = services
        /\ build_federated_schema(services, iteration_order)
               = BuildOk(Snapshot(t).services, Snapshot(t).type_to_service_map)
        /\ \A k \in DOMAIN Snapshot(t).type_to_service_map :
               Owners(Snapshot(t), k)
                   = {n \in DOMAIN Snapshot(t).services :
                          k \in SchemaKeySet(Snapshot(t).services[n].schema)}

\* Witness of C17: a snapshot of two services is returned to one task while
\* another task is inside register_service, waiting for the registry.
C17_Witness ==
    \E t, u \in Tasks :
        /\ GotSchema(t)
        /\ DOMAIN Snapshot(t).services = ServiceNames
        /\ pc[u] = "rs_registry"

\* A task whose get_schema has just returned, with Ok or with Err
SchemaReturned(t) == pc[t] = "pr_drop" /\ result[t].some

\* the registered services whose schema text does not parse
Unparseable(svcs) == {n \in DOMAIN svcs : ~parse_schema(svcs[n].schema).ok}

\* C18: register_service returns also for a schema text that does not parse;
\* while a registered service has such a schema every get_schema fails with
\* the error that names such a service, and get_schema succeeds when no
\* registered service has one (again, once it has been replaced).
C18_BadSchemaTaintsRegistry ==
    /\ \A n \in ServiceNames :
           (lastReturned[n] # NoCfg /\ regWriter = NoTask) => services[n] = lastReturned[n]
    /\ \A t \in Tasks : SchemaReturned(t) =>
           IF Unparseable(services) # {}
           THEN ~result[t].value.ok /\ result[t].value.service \in Unparseable(services)
           ELSE result[t].value.ok

\* Witness of C18: the service products was registered with a schema that does
\* not parse, was then registered again with one that parses, and a later
\* get_schema has succeeded.
C18_Witness ==
    \E t \in Tasks :
        /\ GotSchema(t)
        /\ prevReturned["products"] # NoCfg
        /\ ~parse_schema(prevReturned["products"].schema).ok
        /\ seenAtStart[t]["products"] # NoCfg
        /\ parse_schema(seenAtStart[t]["products"].schema).ok

Registering == \E t \in Tasks : pc[t] \in {"rs_services", "rs_cache"}

\* C23: whenever no register_service call is in progress, the cache cell is
\* empty or holds exactly the composition of the service map as it stands,
\* also after get_schema calls that ran side by side and both found the
\* cache empty: no stale snapshot stays installed.
C23_CacheEmptyOrCurrent ==
    (~Registering /\ federated_schema.some) =>
        /\ federated_schema.value.services = services
        /\ build_federated_schema(services, iteration_order)
               = BuildOk(federated_schema.value.services,
                         federated_schema.value.type_to_service_map)

\* Witness of C23: after a service was registered again with another schema,
\* two get_schema calls both found the cache empty; one has installed its
\* snapshot and the other is about to install its own.
C23_Witness ==
    \E t, u \in Tasks :
        /\ t # u
        /\ pc[t] = "gs_install"
        /\ pc[u] = "pr_drop"
        /\ federated_schema.some
        /\ ~cacheAtStart[u].some
        /\ \E n \in ServiceNames : prevReturned[n] # NoCfg /\ prevReturned[n] # lastReturned[n]

\* C29: a reader that composes the view holds no lock on the service set and
\* no lock on the registry while it composes, so no register_service call
\* waits for a composition in progress.
C29_ComposesOutsideLocks ==
    \A t \in Tasks : pc[t] = "gs_build" =>
        /\ t \notin svcReaders
        /\ t \notin regReaders
        /\ \A u \in Tasks : pc[u] \in {"rs_registry", "rs_services"} =>
               (regReaders = {} /\ svcReaders = {})

\* the service names of the model in lexicographic order
NamesInOrder == << "products", "reviews", "users" >>

\* a is in front of b in lexicographic order
NameBefore(a, b) ==
    \E i, j \in 1..Len(NamesInOrder) : i < j /\ NamesInOrder[i] = a /\ NamesInOrder[j] = b

\* the owners are listed in ascending order of name
SortedByName(owners) ==
    \A i, j \in 1..Len(owners) :
        i < j => (owners[i] = owners[j] \/ NameBefore(owners[i], owners[j]))

\* the key "Query.f" for the fields f of the Query type of some registered schema
QueryFieldKeys(snap) ==
    {k \in DOMAIN snap.type_to_service_map :
        \E f \in {"users", "user", "me", "products", "product"} : k = "Query." \o f}

\* C24: in every snapshot the owners of every key are listed in lexicographic
\* order of service name, so a top-level field that several services own is
\* routed to the smallest of their names, whatever the order of registration
\* and the iteration order of the service map.
C24_OwnersInNameOrder ==
    \A t \in Tasks : GotSchema(t) =>
        /\ \A k \in DOMAIN Snapshot(t).type_to_service_map :
               SortedByName(Snapshot(t).type_to_service_map[k])
        /\ \A k \in QueryFieldKeys(Snapshot(t)) :
               \A n \in Owners(Snapshot(t), k) \ {Snapshot(t).type_to_service_map[k][1]} :
                   NameBefore(Snapshot(t).type_to_service_map[k][1], n)

\* C25: in every snapshot no owner list names a service twice, also when a
\* registered schema defines a type name or a field name more than once.
C25_OwnersUnique ==
    \A t \in Tasks : GotSchema(t) =>
        \A k \in DOMAIN Snapshot(t).type_to_service_map :
            LET owners == Snapshot(t).type_to_service_map[k] IN
            /\ owners # <<>>
            /\ \A i, j \in 1..Len(owners) : i # j => owners[i] # owners[j]

\* C34: register_service calls for one name are serialised by the write lock
\* of the registry.  While no call holds it, the service map holds under each
\* name exactly the config of the call that held it last, whole, with the
\* name of the config equal to its key; a call that holds it and has done its
\* insert has its own config stored; and a get_schema that returns composes
\* from the configs stored.
C34_LastWriterWins ==
    /\ \A n \in DOMAIN services : services[n].name = n /\ services[n] \in Configs
    /\ regWriter = NoTask =>
           \A n \in ServiceNames :
               IF lastReturned[n] = NoCfg THEN n \notin DOMAIN services
               ELSE n \in DOMAIN services /\ services[n] = lastReturned[n]
    /\ \A t \in Tasks : pc[t] = "rs_cache" =>
           /\ regWriter = t
           /\ services[arg[t].name] = arg[t]
           /\ \A n \in DOMAIN services \ {arg[t].name} : services[n] = lastReturned[n]
    /\ \A t \in Tasks : GotSchema(t) =>
           \A n \in ServiceNames :
               lastReturned[n] # NoCfg =>
                   /\ Snapshot(t).services[n] = lastReturned[n]
                   /\ \A k \in SchemaKeySet(lastReturned[n].schema) : n \in Owners(Snapshot(t), k)

\* Witness of C34: two calls for one name whose configs differ in the url;
\* the one that took the lock second has done its insert over the config
\* that the first one stored and returned with.
C34_Witness ==
    \E t \in Tasks :
        /\ pc[t] = "rs_cache"
        /\ lastReturned[arg[t].name] # NoCfg
        /\ lastReturned[arg[t].name].url # arg[t].url
        /\ lastReturned[arg[t].name].schema = arg[t].schema
        /\ calls = 2

----------------------------------------------------------------------------------------------------------------------------------------
(* Reading a generated operation text *)

OpenBrackets == {<< "(" >>, << "{" >>, << "[" >>}
CloseBrackets == {<< ")" >>, << "}" >>, << "]" >>}

\* the bracket depth in front of each lexeme of `text`
DepthBefore(text) ==
    [i \in 1..Len(text) |->
        Cardinality({j \in 1..(i - 1) : text[j] \in OpenBrackets})
        - Cardinality({j \in 1..(i - 1) : text[j] \in CloseBrackets})]

\* the positions inside the operation's body: behind the first "{" at depth 0
BodyPositions(text) ==
    LET depth == DepthBefore(text) IN
    {i \in 1..Len(text) : \E j \in 1..(i - 1) : text[j] = << "{" >> /\ depth[j] = 0}

\* the names of the root fields, in order: the lexemes directly inside the body
\* (at depth 1) that are no brackets
RootFieldNames(text) ==
    LET depth == DepthBefore(text)
        body == BodyPositions(text)
        positions == SelectSeq([i \in 1..Len(text) |-> i],
                               LAMBDA i : /\ i \in body
                                          /\ depth[i] = 1
                                          /\ text[i] \notin OpenBrackets \cup CloseBrackets)
    IN  [k \in 1..Len(positions) |-> text[positions[k]][1]]

\* the variables the operation references: the names behind a "$" in the body
ReferencedVariables(text) ==
    LET body == BodyPositions(text) IN
    {text[i + 1][1] : i \in {j \in body : j < Len(text) /\ text[j] = << "$" >>}}

----------------------------------------------------------------------------
(* What graphql_parser reads: the tokens of a field in GraphQL syntax.  Two  *)
(* texts parse to the same tree exactly when they have the same tokens;     *)
(* commas are ignored and a string token stands for its decoded characters. *)

RECURSIVE SyntaxOfValue(_)
RECURSIVE SyntaxOfValues(_)
RECURSIVE SyntaxOfPairs(_)
\* the tokens from which parse_query reads `value`
SyntaxOfValue(value) ==
    CASE value.kind = "Variable" -> Lexemes(<< "$", value.v >>)
      [] value.kind = "String" -> << << "\"" >> \o value.v \o << "\"" >> >>
      [] value.kind = "Int" -> Lexemes(<< ToString(value.v) >>)
      [] value.kind = "Boolean" -> Lexemes(<< IF value.v THEN "true" ELSE "false" >>)
      [] value.kind = "Null" -> Lexemes(<< "null" >>)
      [] value.kind = "Enum" -> Lexemes(<< value.v >>)
      [] value.kind = "List" ->
            Lexemes(<< "[" >>) \o SyntaxOfValues(value.v) \o Lexemes(<< "]" >>)
      [] value.kind = "Object" ->
            Lexemes(<< "{" >>) \o SyntaxOfPairs(value.v) \o Lexemes(<< "}" >>)
SyntaxOfValues(items) ==
    IF items = <<>> THEN <<>>
    ELSE SyntaxOfValue(Head(items)) \o SyntaxOfValues(Tail(items))
SyntaxOfPairs(pairs) ==
    IF pairs = <<>> THEN <<>>
    ELSE Lexemes(<< Head(pairs)[1], ":" >>) \o SyntaxOfValue(Head(pairs)[2])
         \o SyntaxOfPairs(Tail(pairs))

SyntaxOfArguments(arguments) ==
    IF arguments = <<>> THEN <<>>
    ELSE Lexemes(<< "(" >>) \o SyntaxOfPairs(arguments) \o Lexemes(<< ")" >>)

\* `@name(arguments)` for each directive
RECURSIVE SyntaxOfDirectives(_)
SyntaxOfDirectives(directives) ==
    IF directives = <<>> THEN <<>>
    ELSE Lexemes(<< "@", Head(directives).name >>)
         \o SyntaxOfArguments(Head(directives).arguments)
         \o SyntaxOfDirectives(Tail(directives))

RECURSIVE SyntaxOfSelections(_)
RECURSIVE SyntaxOfSelection(_)
SyntaxOfSelections(items) ==
    IF items = <<>> THEN <<>>
    ELSE SyntaxOfSelection(Head(items)) \o SyntaxOfSelections(Tail(items))
\* the tokens from which parse_query reads `selection`
SyntaxOfSelection(selection) ==
    CASE selection.kind = "Field" ->
            (IF selection.alias # "" THEN Lexemes(<< selection.alias, ":" >>) ELSE <<>>)
            \o Lexemes(<< selection.name >>)
            \o SyntaxOfArguments(selection.arguments)
            \o SyntaxOfDirectives(selection.directives)
            \o (IF selection.selection_set # <<>>
                THEN Lexemes(<< "{" >>) \o SyntaxOfSelections(selection.selection_set)
                     \o Lexemes(<< "}" >>)
                ELSE <<>>)
      [] selection.kind = "FragmentSpread" -> Lexemes(<< "...", selection.fragment_name >>)
      [] selection.kind = "InlineFragment" ->
            Lexemes(<< "..." >>)
            \o (IF selection.type_condition # ""
                THEN Lexemes(<< "on", selection.type_condition >>)
                ELSE <<>>)
            \o Lexemes(<< "{" >>) \o SyntaxOfSelections(selection.selection_set)
            \o Lexemes(<< "}" >>)

\* the characters a string token stands for: a backslash escapes the next character
RECURSIVE DecodeChars(_)
DecodeChars(pieces) ==
    IF pieces = <<>> THEN <<>>
    ELSE IF Head(pieces) = "\\" /\ Len(pieces) > 1
    THEN << pieces[2] >> \o DecodeChars(Tail(Tail(pieces)))
    ELSE << Head(pieces) >> \o DecodeChars(Tail(pieces))

IsStringLexeme(lexeme) == Len(lexeme) >= 2 /\ lexeme[1] = "\""

\* the tokens of a text: its lexemes without the commas, strings decoded
TokensOf(text) ==
    LET kept == SelectSeq(text, LAMBDA lexeme : lexeme # << "," >>) IN
    [i \in 1..Len(kept) |->
        IF IsStringLexeme(kept[i])
        THEN << "\"" >> \o DecodeChars(SubSeq(kept[i], 2, Len(kept[i]) - 1)) \o << "\"" >>
        ELSE kept[i]]

\* the tokens of the selection set of the operation that `text` holds: what
\* stands between the "{" that opens the body and the "}" that ends the text
RootSelectionTokens(text) ==
    LET depth == DepthBefore(text)
        opens == {i \in 1..Len(text) : text[i] = << "{" >> /\ depth[i] = 0}
    IN  IF opens = {} \/ text[Len(text)] # << "}" >> THEN <<>>
        ELSE TokensOf(SubSeq(text, (CHOOSE i \in opens : \A j \in opens : i <= j) + 1,
                             Len(text) - 1))

----------------
(* Properties of the planner *)

Planned == planResult.some /\ planResult.value.ok
Plan == planResult.value

\* the operation definitions of the document (fragment definitions left out)
OperationsOf(query) == SelectSeq(query.definitions, LAMBDA def : def.kind # "Fragment")
OperationType(op) == IF op.kind = "SelectionSet" THEN "Query" ELSE op.kind

\* the names of the top-level fields of `op` that the snapshot routes to s, in order
NamesRoutedTo(op, s) ==
    LET routed == SelectSeq(extract_fields(op.selection_set),
                            LAMBDA f : find_service_for_field(f.name, OperationType(op),
                                           planSchema) = RouteOk(s))
    IN  [i \in 1..Len(routed) |-> routed[i].name]

AllRoutable(op) ==
    \A i \in 1..Len(op.selection_set) :
        op.selection_set[i].kind = "Field" =>
            find_service_for_field(op.selection_set[i].name, OperationType(op), planSchema).ok

\* C3: for a single operation whose top-level fields are all routable, the
\* operation generated for each service selects as root fields exactly the
\* top-level fields routed to it, in the order encountered (so no field is
\* dropped when several fields go to one service).
C3_RoutingPartition ==
    (Planned /\ Len(OperationsOf(planQuery)) = 1 /\ AllRoutable(OperationsOf(planQuery)[1])) =>
        \A s \in ServiceNames :
            RootFieldNames(IF s \in DOMAIN Plan.service_queries
                           THEN Plan.service_queries[s] ELSE <<>>)
                = NamesRoutedTo(OperationsOf(planQuery)[1], s)

\* C4: for a plan made with a JSON-object variables input (here: one that
\* holds a value for every variable of the document), the key set of
\* service_variables[s] is the set of variables that service_queries[s]
\* references, for every service s of the plan.
C4_VariableProjectionExact ==
    (Planned /\ planVariables.kind = "object"
             /\ VariableNames \subseteq DOMAIN planVariables.fields) =>
        \A s \in DOMAIN Plan.service_queries :
            /\ s \in DOMAIN Plan.service_variables
            /\ DOMAIN Plan.service_variables[s] = ReferencedVariables(Plan.service_queries[s])

\* the plain top-level fields of the operations of the document, each with
\* the type of its operation
TopLevelFields(query) ==
    UNION { { << OperationType(OperationsOf(query)[i]), f >> :
                 f \in Range(extract_fields(OperationsOf(query)[i].selection_set)) } :
            i \in 1..Len(OperationsOf(query)) }

\* the pairs (O, f) of the document for which the snapshot has no key "O.f"
UnroutableIn(query, schema) ==
    { << of[1], of[2].name >> : of \in
        { x \in TopLevelFields(query) :
            (x[1] \o "." \o x[2].name) \notin DOMAIN schema.type_to_service_map } }

RoutableIn(query, schema) ==
    { << of[1], of[2].name >> : of \in
        { x \in TopLevelFields(query) :
            (x[1] \o "." \o x[2].name) \in DOMAIN schema.type_to_service_map } }

\* C11: when the snapshot has no key "O.f" for some top-level field f of an
\* operation of type O of the document, plan_query returns no plan but the
\* error that names such an O and f, whatever other fields are routable.
C11_UnroutableFieldFails ==
    (planResult.some /\ planQuery.ok /\ UnroutableIn(planQuery, planSchema) # {}) =>
        /\ ~Plan.ok
        /\ Plan.service_queries = <<>>
        /\ Plan.error = "No service found for field"
        /\ Plan.at \in UnroutableIn(planQuery, planSchema)

C11_Witness ==
    /\ planResult.some
    /\ planQuery.ok
    /\ UnroutableIn(planQuery, planSchema) # {}
    /\ RoutableIn(planQuery, planSchema) # {}
    /\ Len(OperationsOf(planQuery)) = 2
    /\ ~Plan.ok

\* C12: plan_query returns no successful plan with an empty service_queries:
\* a document that parses and has no plain top-level field in any operation
\* gets the empty-plan error.
C12_NoEmptyPlan ==
    planResult.some =>
        /\ Plan.ok => DOMAIN Plan.service_queries # {}
        /\ (planQuery.ok /\ TopLevelFields(planQuery) = {}) =>
               (~Plan.ok /\ Plan.error = "No valid operations found in query")

C12_Witness ==
    /\ planResult.some
    /\ planQuery.ok
    /\ Len(OperationsOf(planQuery)) = 1
    /\ TopLevelFields(planQuery) = {}
    /\ Plan.error = "No valid operations found in query"

\* the operation plan_query generates for the top-level field f of `op`
GeneratedFor(op, f) ==
    create_field_query(f, OperationType(op),
                       IF op.kind = "SelectionSet" THEN <<>> ELSE op.variable_definitions,
                       find_variables_in_field(f))

\* C16: for every top-level field of a planned operation, the operation
\* generated for it parses to one root field equal to the original field:
\* same alias, name, arguments, values, directives and nested selections.
C16_RewriteRoundTrip ==
    Planned =>
        \A i \in 1..Len(OperationsOf(planQuery)) :
            LET op == OperationsOf(planQuery)[i] IN
            \A f \in Range(extract_fields(op.selection_set)) :
                RootSelectionTokens(GeneratedFor(op, f)) = SyntaxOfSelection(f)

\* C21: in every plan that plan_query returns, service_queries and
\* service_variables have the same keys, whatever the variables input is and
\* however many fields go to one service.
C21_PlanMapsShareKeys ==
    Planned => DOMAIN Plan.service_queries = DOMAIN Plan.service_variables

\* Witness of C21: a plan for two top-level fields that go to one service, one
\* with and one without a variable, made with a variables input that is no
\* JSON object.
C21_Witness ==
    /\ Planned
    /\ planVariables = NonObjectVariables
    /\ Cardinality(DOMAIN Plan.service_queries) = 1
    /\ \E x, y \in TopLevelFields(planQuery) :
          /\ find_variables_in_field(x[2]) = {}
          /\ find_variables_in_field(y[2]) # {}

\* C22: every service that is a key of a plan returned by plan_query is a
\* key of the services map of the snapshot the plan was made from.
C22_PlanServicesInSnapshot ==
    Planned =>
        /\ DOMAIN Plan.service_queries \subseteq DOMAIN planSchema.services
        /\ DOMAIN Plan.service_variables \subseteq DOMAIN planSchema.services

\* Witness of C22: a plan over a snapshot of two services that has a request
\* for each of them.
C22_Witness ==
    /\ Planned
    /\ Cardinality(DOMAIN planSchema.services) = 2
    /\ DOMAIN Plan.service_queries = DOMAIN planSchema.services

\* the fragment definitions of the document
FragmentsOf(query) == SelectSeq(query.definitions, LAMBDA def : def.kind = "Fragment")

RECURSIVE ValueReferences(_)
\* the variables an argument value references: itself, its list elements and
\* the values of its object fields
ValueReferences(value) ==
    CASE value.kind = "Variable" -> {value.v}
      [] value.kind = "List" -> UNION {ValueReferences(value.v[i]) : i \in 1..Len(value.v)}
      [] value.kind = "Object" -> UNION {ValueReferences(value.v[i][2]) : i \in 1..Len(value.v)}
      [] OTHER -> {}

RECURSIVE ReferencesInside(_, _)
\* the variables referenced anywhere inside a selection of the document
\* `query`: in the arguments of a field and its nested selections, in the
\* selections of an inline fragment, and in the definition of a spread fragment
ReferencesInside(selection, query) ==
    CASE selection.kind = "Field" ->
            UNION {ValueReferences(selection.arguments[i][2]) :
                       i \in 1..Len(selection.arguments)}
            \cup UNION {ReferencesInside(selection.selection_set[i], query) :
                            i \in 1..Len(selection.selection_set)}
      [] selection.kind = "InlineFragment" ->
            UNION {ReferencesInside(selection.selection_set[i], query) :
                       i \in 1..Len(selection.selection_set)}
      [] selection.kind = "FragmentSpread" ->
            UNION { UNION {ReferencesInside(def.selection_set[i], query) :
                               i \in 1..Len(def.selection_set)} :
                    def \in {d \in Range(FragmentsOf(query)) :
                                 d.name = selection.fragment_name} }

\* C26: the used-variable set computed for a top-level field holds every
\* variable referenced in an argument value anywhere inside the field, also
\* inside an inline fragment or a spread fragment nested in it.
C26_UsedVariablesComplete ==
    (planResult.some /\ planQuery.ok) =>
        \A x \in TopLevelFields(planQuery) :
            ReferencesInside(x[2], planQuery) \subseteq find_variables_in_field(x[2])

\* the lexemes in front of the body of the operation that `text` holds: the
\* keyword and the variable declarations
HeaderOf(text) ==
    LET depth == DepthBefore(text)
        opens == {i \in 1..Len(text) : text[i] = << "{" >> /\ depth[i] = 0}
    IN  IF opens = {} THEN text
        ELSE SubSeq(text, 1, (CHOOSE i \in opens : \A j \in opens : i <= j) - 1)

\* the tokens of the declarations `$name: Type [= DefaultValue]` of the given
\* definitions, in order
RECURSIVE SyntaxOfDeclarations(_)
SyntaxOfDeclarations(defs) ==
    IF defs = <<>> THEN <<>>
    ELSE Lexemes(<< "$", Head(defs).name, ":", Head(defs).var_type >>)
         \o (IF Head(defs).default_value.some
             THEN Lexemes(<< "=" >>) \o SyntaxOfValue(Head(defs).default_value.value)
             ELSE <<>>)
         \o SyntaxOfDeclarations(Tail(defs))

\* the header of a well-formed operation of type `operation_type` whose body
\* references the variables `referenced`, given the definitions of the
\* original operation: no declaration list when nothing is referenced
WellFormedHeader(operation_type, variable_defs, referenced) ==
    LET projected == SelectSeq(variable_defs, LAMBDA def : def.name \in referenced) IN
    Lexemes(<< OperationKeyword(operation_type) >>)
    \o (IF projected = <<>> THEN <<>>
        ELSE Lexemes(<< "(" >>) \o SyntaxOfDeclarations(projected) \o Lexemes(<< ")" >>))

\* the operation `text` declares, in the order of the definitions of some
\* operation of the document, exactly the variables that its body references
WellFormedVariables(text, query) ==
    \E i \in 1..Len(OperationsOf(query)) :
        LET op == OperationsOf(query)[i] IN
        /\ ReferencedVariables(text) \subseteq
               {op.variable_definitions[k].name : k \in 1..Len(op.variable_definitions)}
        /\ TokensOf(HeaderOf(text))
               = WellFormedHeader(OperationType(op), op.variable_definitions,
                                  ReferencedVariables(text))

\* C27: every operation that plan_query emits declares, in the order of the
\* original operation's definitions, exactly the definitions of the variables
\* its body references: none is used undeclared, none is declared unused, and
\* no empty declaration list "()" is emitted.
C27_DeclarationsMatchReferences ==
    Planned =>
        \A s \in DOMAIN Plan.service_queries :
            WellFormedVariables(Plan.service_queries[s], planQuery)

\* C28: for a document that is one unnamed selection set, every top-level
\* field f is routed through the key "Query.f", and each emitted operation
\* starts with the keyword query followed directly by its body, without a
\* variable declaration list, whatever the arguments of f are.
C28_UnnamedSelectionSetIsPlainQuery ==
    (Planned /\ Len(OperationsOf(planQuery)) = 1
             /\ OperationsOf(planQuery)[1].kind = "SelectionSet") =>
        /\ DOMAIN Plan.service_queries
               = { planSchema.type_to_service_map["Query." \o f.name][1] :
                     f \in Range(extract_fields(OperationsOf(planQuery)[1].selection_set)) }
        /\ \A s \in DOMAIN Plan.service_queries :
               HeaderOf(Plan.service_queries[s]) = Lexemes(<< "query" >>)

----------------------------------------------------------------------------
(* Properties of the executor *)

Done == execPc = "done"
Returned == execResult.value
Called == Range(futures)

\* service_variables[s] as the JSON object it is
VariablesAsJson(m) == JObject([n \in DOMAIN m |-> JString(m[n])])

\* the server of s answered with a 2xx status and a JSON body
Successful(s) ==
    /\ upstream[s].transport = "ok"
    /\ upstream[s].json
    /\ upstream[s].status \in 200..299

HasDataObject(s) ==
    /\ Get(upstream[s].value, "data").some
    /\ Get(upstream[s].value, "data").value.kind = "object"

DataOf(s) == Get(upstream[s].value, "data").value.fields

\* the errors array of the response of s, empty when it has none
ErrorsOf(s) ==
    LET errors == Get(upstream[s].value, "errors") IN
    IF errors.some /\ errors.value.kind = "array" THEN errors.value.items ELSE <<>>

\* the errors array of the returned value, empty when it has none
MergedErrors ==
    IF Returned.ok /\ "errors" \in DOMAIN Returned.value.fields
       /\ Returned.value.fields["errors"].kind = "array"
    THEN Returned.value.fields["errors"].items ELSE <<>>

\* an error without the "service" member the merge writes into error objects
Untagged(error) ==
    IF error.kind = "object"
    THEN [n \in DOMAIN error.fields \ {"service"} |-> error.fields[n]]
    ELSE error

\* C5: every request execute_plan has sent to a service s carries the text
\* service_queries[s] under "query" and the object service_variables[s]
\* under "variables".
C5_RequestCarriesQueryAndVariables ==
    \A s \in DOMAIN sent :
        /\ Get(sent[s].body, "query") = Some(JString(execPlan.service_queries[s]))
        /\ s \in DOMAIN execPlan.service_variables
        /\ Get(sent[s].body, "variables")
               = Some(VariablesAsJson(execPlan.service_variables[s]))

\* C6: when a server answered a request of the run with a status outside
\* 2xx, execute_plan does not return a successful value.
C6_NonSuccessStatusFails ==
    (Done /\ \E s \in Called : upstream[s].transport = "ok"
                                /\ upstream[s].status \notin 200..299)
        => ~Returned.ok

\* C7: when a call of the run failed at the transport layer (the send failed
\* or the response could not be read), execute_plan returns an error, never
\* a value that holds the data of the services that succeeded.
C7_TransportFailureFails ==
    (Done /\ \E s \in Called : ~outcome[s].ok) => ~Returned.ok

\* C8: when every called server answers successfully with a data object and
\* the top-level keys of these objects are pairwise disjoint, the returned
\* value has a data object whose keys are the union of the per-service keys,
\* each with the value its service returned.
C8_DataIsDisjointUnion ==
    (Done /\ (\A s \in Called : Successful(s) /\ HasDataObject(s))
          /\ (\A s1, s2 \in Called : s1 # s2 => DOMAIN DataOf(s1) \cap DOMAIN DataOf(s2) = {}))
        => /\ Returned.ok
           /\ Get(Returned.value, "data").some
           /\ Get(Returned.value, "data").value.kind = "object"
           /\ DOMAIN Get(Returned.value, "data").value.fields
                  = UNION {DOMAIN DataOf(s) : s \in Called}
           /\ \A s \in Called : \A key \in DOMAIN DataOf(s) :
                  Get(Returned.value, "data").value.fields[key] = DataOf(s)[key]

\* C9: a second run of execute_plan on the same plan and snapshot, with the
\* same answer from every server, returns the value the first run returned.
C9_RunsAgree ==
    (Done /\ prevResult.some) => execResult = prevResult

\* C10: when every called server answers successfully, the errors array of
\* the returned value is as long as the per-service errors arrays together
\* and lists their entries service by service in the order of the results,
\* the entries of one service in their original order.
C10_ErrorsConcatenated ==
    (Done /\ \A s \in Called : Successful(s)) =>
        LET expected == Concat([i \in 1..Len(futures) |-> ErrorsOf(futures[i])]) IN
        /\ Returned.ok
        /\ Len(MergedErrors) = Len(expected)
        /\ \A i \in 1..Len(expected) : Untagged(MergedErrors[i]) = Untagged(expected[i])

C10_Witness ==
    /\ Done
    /\ Len(futures) = 2
    /\ \A s \in Called : Successful(s) /\ Len(ErrorsOf(s)) = 2
    /\ Len(MergedErrors) = 4

\* the services of the plan that the snapshot given to execute_plan does not hold
MissingServices == DOMAIN execPlan.service_queries \ DOMAIN execSchema.services

\* C13: when the plan names a service that is no key of schema.services,
\* execute_plan fails; it does not drop the entry and return a value built
\* from the other services.
C13_MissingServiceFails ==
    (Done /\ MissingServices # {}) => ~Returned.ok

\* C14: every request sent for a client request that carries auth_headers
\* carries each of their (name, value) pairs; for a client request without
\* auth_headers the requests carry no header beyond Content-Type.
C14_AuthHeadersForwarded ==
    \A s \in DOMAIN sent :
        IF auth_headers.some
        THEN \A name \in DOMAIN auth_headers.value :
                 /\ name \in DOMAIN sent[s].headers
                 /\ sent[s].headers[name] = auth_headers.value[name]
        ELSE DOMAIN sent[s].headers \subseteq {"Content-Type"}

\* C20: every call of execute_plan returns in the end, also when a server
\* never answers.
C20_ExecutePlanReturns ==
    (execPc = "running") ~> (execPc = "done")

\* C32: when every call of the run got a response, each entry of the merged
\* errors array equals the entry of the subgraph's errors array it came
\* from: the merge adds, removes and changes no member of it.
C32_ErrorsPassedVerbatim ==
    (Done /\ \A s \in Called : outcome[s].ok) =>
        LET expected == Concat([i \in 1..Len(futures) |-> ErrorsOf(futures[i])]) IN
        /\ Len(MergedErrors) = Len(expected)
        /\ \A i \in 1..Len(expected) : MergedErrors[i] = expected[i]

\* the response of s has no data member that is an object with a member
NoDataKeys(s) == HasDataObject(s) => DOMAIN DataOf(s) = {}

\* C33: when every called server answers successfully and the responses hold
\* no data member and no error between them, the returned value has a data
\* member that is the empty object.
C33_EmptyDataObject ==
    (Done /\ \A s \in Called : Successful(s) /\ NoDataKeys(s) /\ ErrorsOf(s) = <<>>) =>
        /\ Returned.ok
        /\ Get(Returned.value, "data") = Some(JObject(<<>>))

\* the entries of the plan that resolve to a service of the snapshot
ResolvedServices == DOMAIN execPlan.service_queries \cap DOMAIN execSchema.services

\* C35: a run of execute_plan makes one future, and so one request, for each
\* entry of plan.service_queries that resolves to a service and none for any
\* other service, and it returns only when every request it issued has
\* completed, with a response or with a failure.
C35_OneRequestPerEntryAllAwaited ==
    /\ execPc \in {"running", "done"} =>
           /\ Range(futures) = ResolvedServices
           /\ Len(futures) = Cardinality(ResolvedServices)
    /\ DOMAIN outcome \subseteq DOMAIN sent
    /\ DOMAIN sent \subseteq Range(futures)
    /\ \A s \in DOMAIN sent : sent[s].url = execSchema.services[s].url
    /\ Done => (DOMAIN sent = ResolvedServices /\ DOMAIN outcome = ResolvedServices)

\* Witness of C35: a run with two requests has returned; one of them ended
\* with a response and the other with a failure.
C35_Witness ==
    /\ Done
    /\ Len(futures) = 2
    /\ \E s1, s2 \in Called : outcome[s1].ok /\ ~outcome[s2].ok

----------------------------------------------------------------------------
(* Properties of process_request *)

\* C30: within one process_request, plan_query starts only after get_schema
\* has returned Ok and execute_plan only after plan_query has returned Ok;
\* when get_schema or plan_query fails the request returns that error, no
\* later step runs and no request goes to a server.
C30_StepsInOrder ==
    /\ planResult.some => (reqSchema.some /\ reqSchema.value.ok
                           /\ planSchema = reqSchema.value.schema)
    /\ (execPc # "idle" \/ sent # <<>>) =>
           (planResult.some /\ planResult.value.ok /\ execPlan = planResult.value
            /\ execSchema = planSchema)
    /\ (reqSchema.some /\ ~reqSchema.value.ok) =>
           /\ reqPc = "returned"
           /\ reqResult = Some(ReqErr(SchemaErrorText(reqSchema.value)))
           /\ ~planResult.some
    /\ (planResult.some /\ ~planResult.value.ok) =>
           /\ reqPc = "returned"
           /\ reqResult = Some(ReqErr(PlanErrorText(planResult.value)))
    /\ (reqResult.some /\ ~reqResult.value.ok) => (execPc = "idle" /\ sent = <<>>)
    /\ (reqResult.some /\ reqResult.value.ok) =>
           (execPc = "done" /\ reqResult.value.value = execResult.value.value)
    /\ reqPc = "returned" <=> reqResult.some

\* Witness of C30: get_schema has returned a snapshot of two services,
\* plan_query has failed on it, and the request has returned.
C30_Witness ==
    /\ reqPc = "returned"
    /\ reqSchema.some
    /\ reqSchema.value.ok
    /\ Cardinality(DOMAIN planSchema.services) = 2
    /\ planResult.some
    /\ ~planResult.value.ok
    /\ planQuery.ok

\* the snapshot that get_schema returned to the request
ReqSnapshot == reqSchema.value.schema

\* C31: a request plans and executes against the snapshot it got at its
\* start, whatever register_service calls complete afterwards: the plan is
\* the one plan_query makes from that snapshot, execute_plan is given that
\* snapshot, every service of the plan resolves in it, every request goes to
\* the url the snapshot holds, and no error of the request is about a service
\* that was not found.
C31_RequestUsesItsSnapshot ==
    /\ planResult.some =>
           /\ planSchema = ReqSnapshot
           /\ planResult.value = plan_query(planQuery, ReqSnapshot, planVariables)
    /\ execPc # "idle" =>
           /\ execSchema = ReqSnapshot
           /\ execPlan = planResult.value
           /\ DOMAIN execPlan.service_queries \subseteq DOMAIN execSchema.services
    /\ \A s \in DOMAIN sent :
           /\ s \in DOMAIN ReqSnapshot.services
           /\ sent[s].url = ReqSnapshot.services[s].url
    /\ execPc \in {"running", "done"} => Range(futures) = DOMAIN execPlan.service_queries
    /\ (reqResult.some /\ ~reqResult.value.ok) =>
           reqResult.value.error \in
               { SchemaErrorText(reqSchema.value),
                 PlanErrorText(plan_query(planQuery, planSchema, planVariables)) }

\* Witness of C31: the request has returned a response; while it was in
\* flight a service of its plan was registered again with another url, and
\* the request went to the url of the snapshot.
C31_Witness ==
    /\ reqPc = "returned"
    /\ reqResult.value.ok
    /\ \E s \in DOMAIN sent :
          /\ services[s].url # sent[s].url
          /\ ReqSnapshot.services[s].url = sent[s].url


----------------------------------------------------------------------------
(* Properties of the three locks *)

\* a task inside register_service, from its call to its return
InRegisterService(t) == pc[t] \in {"rs_registry", "rs_services", "rs_cache", "rs_cache_held"}

\* a task inside process_request up to the return of get_schema
InGetSchemaPhase(t) ==
    pc[t] \in {"pr_registry", "gs_cache", "gs_cache_held", "gs_services", "gs_build",
               "gs_install", "gs_install_held"}

\* C36: whatever the interleaving of process_request and register_service
\* calls, no task waits for ever on the registry lock, the services lock or
\* the cache lock: every register_service call returns and the get_schema
\* phase of every process_request completes.
C36_CallsComplete ==
    \A t \in Tasks :
        (InRegisterService(t) \/ InGetSchemaPhase(t)) ~> (pc[t] \in {"idle", "pr_drop"})

\* the three locks are contended at once: one task holds the registry and
\* the services for reading and waits for the cache, which another holds for
\* reading
C36_Witness ==
    \E t, u \in Tasks :
        /\ t # u
        /\ pc[t] = "gs_install"
        /\ t \in regReaders /\ t \in svcReaders
        /\ pc[u] = "gs_cache_held"
        /\ u \in cacheReaders

====
